---- MODULE Spec2Model ----
(***************************************************************************)
(* gotp: the encrypted vault file, its atomic save, its loads, and the     *)
(* machine-bound session cache.                                            *)
(*                                                                         *)
(* Cryptography is idealised: DeriveKey is injective, and an AES-GCM       *)
(* ciphertext opens only under the key that sealed it.  Byte strings are   *)
(* sequences of units: "a" an ASCII character, "x" a byte that is not      *)
(* valid UTF-8 (such as 0xFF), "r" the replacement character U+FFFD.       *)
(* Timestamps kept inside the vault document are not modelled.             *)
(***************************************************************************)
EXTENDS Integers, Sequences, FiniteSets, TLC

VARIABLES
    fs,           \* the vault directory: path -> file content
    stale,        \* temporary files abandoned by crashed saves
    pc,           \* position of the running process
    sv,           \* locals of the running SaveVaultWithKey
    origin,       \* the in-memory vault and password behind the vault file, the
                  \* salt and KDF parameters init wrote, and the master password
                  \* the last init or passwd set
    res,          \* what the last completed operation returned
    sessionFile,  \* content of session.bin
    now,          \* wall clock: minutes for the session, seconds for backup names
    machine,      \* hostname and uid, the seed of the machine key
    lvi,          \* locals of the running LoadVaultInteractive
    hist,         \* the last SaveSession or ClearSession, if nothing came after
    backups,      \* the backup files beside the vault: timestamp -> content
    cmd,          \* locals of the running command
    log,          \* what the running command, or the caller of CreateBackup, did so far
    call,         \* the last call of a pure function: its arguments and what it returned
    clip          \* the system clipboard and the gotp process that wrote to it

vars == <<fs, stale, pc, sv, origin, res, sessionFile, now, machine, lvi, hist,
          backups, cmd, log, call, clip>>

-----------------------------------------------------------------------------
(* Bounds *)

MaxAccounts == 1      \* accounts in a vault
MaxStale == 1         \* crashes that leave a temporary file behind
MaxTime == 7          \* the clock stops here
MaxStamp == 2         \* the clock of the backup names stops here
MaxCalls == 4         \* successive CreateBackup calls of one caller

-----------------------------------------------------------------------------
(* Values *)

Nil == [nil |-> TRUE]

Passwords == {"p1", "p2"}
Salt1 == <<"s1">>
Salt2 == <<"s2">>
Nonces == {"n0", "n1"}

Ok(v) == [ok |-> TRUE, val |-> v, err |-> "none"]
Err(e) == [ok |-> FALSE, val |-> Nil, err |-> e]

\* crypto.DefaultArgon2Params
DefaultArgon2Params ==
    [memory |-> 65536, iterations |-> 3, parallelism |-> 4,
     saltLength |-> 16, keyLength |-> 32]

\* crypto.DeriveKey: Argon2id, a deterministic function of its inputs whose
\* output has params.KeyLength bytes.
DeriveKey(password, salt, params) ==
    [pw |-> password, salt |-> salt, kdf |-> params]

KeyLen(key) == key.kdf.keyLength

\* aes.NewCipher accepts keys of 16, 24 and 32 bytes.
AESKeySizes == {16, 24, 32}

\* crypto.Encrypt: nonce || Seal(plaintext) under key.
Encrypt(plaintext, key, nonce) ==
    IF KeyLen(key) \notin AESKeySizes
    THEN Err("keysize")
    ELSE Ok([nonce |-> nonce, key |-> key, plain |-> plaintext])

\* A faulty variant of Decrypt: the tag is not verified.
DecryptUnauthenticated(ciphertext, key) ==
    IF KeyLen(key) \notin AESKeySizes
    THEN Err("keysize")
    ELSE Ok(ciphertext.plain)

\* crypto.Decrypt: gcm.Open succeeds only under the sealing key.
Decrypt(ciphertext, key) ==
    IF KeyLen(key) \notin AESKeySizes
    THEN Err("keysize")
    ELSE IF ciphertext.key = key
         THEN Ok(ciphertext.plain)
         ELSE Err("auth")

-----------------------------------------------------------------------------
(* Accounts, vaults and their JSON form *)

Names == {<<"a">>}
Secrets == {<<"a">>, <<"x">>}

\* vault.NewAccount: 6 digits and a period of 30 seconds unless changed.
NewAccount(name, secret) ==
    [name |-> name, secret |-> secret, digits |-> 6, period |-> 30]

Accounts == {NewAccount(n, s) : n \in Names, s \in Secrets}

AccountLists == UNION {[1..n -> Accounts] : n \in 0..MaxAccounts}

\* vault.NewVault
NewVault(salt) ==
    [salt |-> salt, kdf |-> DefaultArgon2Params, accounts |-> <<>>]

\* The vaults a caller can hold in memory: NewVault plus appended accounts.
Vaults == {[NewVault(Salt1) EXCEPT !.accounts = l] : l \in AccountLists}

\* json.Marshal of a string followed by json.Unmarshal of the result:
\* encoding/json coerces the string to valid UTF-8, replacing each invalid
\* byte by U+FFFD.
JsonString(s) == [i \in DOMAIN s |-> IF s[i] = "x" THEN "r" ELSE s[i]]

\* Secret.MarshalJSON: json.Marshal(string(s)); no Base32 conversion is made.
SecretMarshalJSON(s) == JsonString(s)

\* json.Marshal of an Account.
AccountJSON(a) ==
    [name |-> JsonString(a.name), secret |-> SecretMarshalJSON(a.secret),
     digits |-> a.digits, period |-> a.period]

\* json.Marshal(v) in MarshalWithKey: the plaintext document.
VaultJSON(v) ==
    [salt |-> v.salt, kdf |-> v.kdf,
     accounts |-> [i \in DOMAIN v.accounts |-> AccountJSON(v.accounts[i])]]

\* json.Unmarshal(plaintext, &v): each JSON field back into its Go field.
VaultFromJSON(doc) ==
    [salt |-> doc.salt, kdf |-> doc.kdf, accounts |-> doc.accounts]

\* Vault.MarshalWithKey
MarshalWithKey(v, key, nonce) == Encrypt(VaultJSON(v), key, nonce)

\* VaultMetadata, the envelope written to the vault file.
Metadata(v, ciphertext) ==
    [salt |-> v.salt, kdf |-> v.kdf, ciphertext |-> ciphertext]

-----------------------------------------------------------------------------
(* Files *)

VaultPath == "vault.enc"
TmpPath == "vault-*.tmp"
Paths == {VaultPath, TmpPath}

NoFile == [st |-> "none", data |-> Nil]
EmptyFile == [st |-> "empty", data |-> Nil]
PartialFile(d) == [st |-> "partial", data |-> d]
FullFile(d) == [st |-> "full", data |-> d]

Exists(f) == f.st # "none"

\* os.ReadFile followed by json.Unmarshal(data, &metadata)
ReadMetadata(f) ==
    IF ~Exists(f) THEN Err("notexist")
    ELSE IF f.st # "full" THEN Err("json")
    ELSE Ok(f.data)

\* A faulty variant of CreateTempName: the save writes in place.
CreateInPlace(dir) == VaultPath

\* os.CreateTemp(dir, "vault-*.tmp"): a name no other file has.
CreateTempName(dir) == TmpPath

\* os.Rename
Rename(f, src, dst) ==
    IF src = dst THEN f ELSE [f EXCEPT ![dst] = f[src], ![src] = NoFile]

\* A faulty variant of DeferredCleanup: the temporary file is left behind.
NoCleanup(f, tmpName) == f

\* The deferred function of SaveVaultWithKey: remove tmpName if it exists.
DeferredCleanup(f, tmpName) ==
    IF Exists(f[tmpName]) THEN [f EXCEPT ![tmpName] = NoFile] ELSE f

-----------------------------------------------------------------------------
(* Results *)

NoSave == [v |-> Nil, pw |-> "none", data |-> Nil, prev |-> NoFile, tmp |-> "none"]
NoOrigin == [v |-> Nil, pw |-> "none", init |-> Nil, master |-> "none"]
NoLvi == [pre |-> "none", meta |-> Nil]
NoHist == [st |-> "none", key |-> Nil, exp |-> 0]
NoBackups == [t \in 0..MaxStamp |-> NoFile]
NoCmd == [name |-> "none"]
NoCall == [fn |-> "none", args |-> Nil, ret |-> Nil]
NoClip == [content |-> "", proc |-> "none", timers |-> {}, copied |-> Nil]

\* A secret in memory: a key DeriveKey returned or a password the prompt
\* returned.  crypto.ZeroBytes overwrites it with zeros.
KeyBuffer == [kind |-> "key", zeroed |-> FALSE]
PasswordBuffer == [kind |-> "password", zeroed |-> FALSE]
ZeroBytes(b) == [b EXCEPT !.zeroed = TRUE]

\* The secrets among bufs that still hold their bytes.
Live(bufs) == {b \in bufs : ~b.zeroed}

\* SaveVault, Marshal and UnmarshalVault: key := DeriveKey(...) followed by
\* defer crypto.ZeroBytes(key), which runs on every return.
DeferredZero == {ZeroBytes(KeyBuffer)}

\* What the prompt of LoadVaultInteractive answers when it fails.
PromptError == "prompt-error"

\* LoadVaultInteractive: the password the prompt returned and the key
\* derived from it; neither is passed to crypto.ZeroBytes.
PromptedSecrets(prompts, answer) ==
    IF prompts = 0 \/ answer = PromptError THEN {}
    ELSE {PasswordBuffer, KeyBuffer}

Result(op, r) ==
    [op |-> op, ok |-> r.ok, err |-> r.err, val |-> r.val,
     arg |-> Nil, prev |-> NoFile, tmp |-> "none", pre |-> "none",
     prompts |-> 0, at |-> 0, live |-> {}]

NoResult == Result("none", Ok(Nil))

SaveSteps == {"create", "write", "sync", "chmod", "rename"}

\* What a save returns, with the file it found at the vault path and the
\* temporary file it created.
SaveResult(r) ==
    [Result("save", r) EXCEPT !.prev = sv.prev, !.tmp = sv.tmp,
                              !.live = Live(DeferredZero)]

-----------------------------------------------------------------------------
(* SaveVault and SaveVaultWithKey, one action per file-system step *)

\* SaveVault derives the key and calls SaveVaultWithKey, which encrypts the
\* vault and marshals the envelope; the target directory exists.
SaveVault(v, password, nonce) ==
    /\ pc = "idle"
    /\ LET key == DeriveKey(password, v.salt, v.kdf)
           enc == MarshalWithKey(v, key, nonce)
       IN IF enc.ok
          THEN /\ sv' = [v |-> v, pw |-> password, data |-> Metadata(v, enc.val),
                         prev |-> fs[VaultPath], tmp |-> "none"]
               /\ pc' = "create"
               /\ UNCHANGED res
          ELSE /\ res' = [Result("save", enc) EXCEPT !.prev = fs[VaultPath],
                                                      !.live = Live(DeferredZero)]
               /\ UNCHANGED <<sv, pc>>
    /\ UNCHANGED <<fs, stale, origin, sessionFile, now, machine, lvi, hist,
                 backups, cmd, log, call, clip>>

\* A step of the save fails after the deferred cleanup was registered.
SaveFail(e) ==
    /\ fs' = DeferredCleanup(fs, sv.tmp)
    /\ res' = SaveResult(Err(e))
    /\ pc' = "idle"
    /\ sv' = NoSave
    /\ UNCHANGED <<stale, origin, sessionFile, now, machine, lvi, hist,
                 backups, cmd, log, call, clip>>

SaveCreateTemp ==
    /\ pc = "create"
    /\ \/ LET t == CreateTempName(VaultPath)
          IN /\ fs' = [fs EXCEPT ![t] = EmptyFile]
             /\ sv' = [sv EXCEPT !.tmp = t]
             /\ pc' = "write"
             /\ UNCHANGED <<stale, origin, res, sessionFile, now, machine, lvi, hist,
                 backups, cmd, log, call, clip>>
       \/ /\ res' = SaveResult(Err("createtemp"))
          /\ pc' = "idle"
          /\ sv' = NoSave
          /\ UNCHANGED <<fs, stale, origin, sessionFile, now, machine, lvi, hist,
                 backups, cmd, log, call, clip>>

\* f.Write(data): the bytes reach the file in two chunks.
SaveWrite ==
    /\ pc = "write"
    /\ \/ /\ fs[sv.tmp].st = "empty"
          /\ fs' = [fs EXCEPT ![sv.tmp] = PartialFile(sv.data)]
          /\ UNCHANGED <<stale, pc, sv, origin, res, sessionFile, now, machine, lvi, hist,
                 backups, cmd, log, call, clip>>
       \/ /\ fs[sv.tmp].st = "partial"
          /\ fs' = [fs EXCEPT ![sv.tmp] = FullFile(sv.data)]
          /\ pc' = "sync"
          /\ UNCHANGED <<stale, sv, origin, res, sessionFile, now, machine, lvi, hist,
                 backups, cmd, log, call, clip>>
       \/ SaveFail("write")

SaveSync ==
    /\ pc = "sync"
    /\ \/ /\ pc' = "chmod"
          /\ UNCHANGED <<fs, stale, sv, origin, res, sessionFile, now, machine, lvi, hist,
                 backups, cmd, log, call, clip>>
       \/ SaveFail("sync")

SaveChmod ==
    /\ pc = "chmod"
    /\ \/ /\ pc' = "rename"
          /\ UNCHANGED <<fs, stale, sv, origin, res, sessionFile, now, machine, lvi, hist,
                 backups, cmd, log, call, clip>>
       \/ SaveFail("chmod")

SaveRename ==
    /\ pc = "rename"
    /\ \/ /\ fs' = DeferredCleanup(Rename(fs, sv.tmp, VaultPath), sv.tmp)
          /\ origin' = [origin EXCEPT !.v = sv.v, !.pw = sv.pw]
          /\ res' = SaveResult(Ok(sv.data))
          /\ pc' = "idle"
          /\ sv' = NoSave
          /\ UNCHANGED <<stale, sessionFile, now, machine, lvi, hist,
                 backups, cmd, log, call, clip>>
       \/ SaveFail("rename")

\* The process dies in the middle of a save: nothing is cleaned up, and the
\* temporary file keeps its unique name for ever.
Crash ==
    /\ pc \in SaveSteps
    /\ stale < MaxStale
    /\ stale' = IF sv.tmp = "none" THEN stale ELSE stale + 1
    /\ fs' = IF sv.tmp = TmpPath THEN [fs EXCEPT ![TmpPath] = NoFile] ELSE fs
    /\ res' = SaveResult(Err("crashed"))
    /\ pc' = "idle"
    /\ sv' = NoSave
    /\ UNCHANGED <<origin, sessionFile, now, machine, lvi, hist,
                 backups, cmd, log, call, clip>>

-----------------------------------------------------------------------------
(* LoadVault and LoadVaultWithKey; either may run beside a save *)

\* vault.UnmarshalVault
UnmarshalVault(data, password, salt, params) ==
    LET key == DeriveKey(password, salt, params)
        plain == Decrypt(data, key)
    IN IF plain.ok THEN Ok(VaultFromJSON(plain.val)) ELSE plain

\* vault.LoadVault as a function of the file it reads
LoadVaultOf(f, password) ==
    LET m == ReadMetadata(f)
    IN IF ~m.ok THEN m
       ELSE UnmarshalVault(m.val.ciphertext, password, m.val.salt, m.val.kdf)

\* vault.LoadVaultWithKey as a function of the file it reads
LoadVaultWithKeyOf(f, key) ==
    LET m == ReadMetadata(f)
    IN IF ~m.ok THEN m
       ELSE LET plain == Decrypt(m.val.ciphertext, key)
            IN IF plain.ok THEN Ok(VaultFromJSON(plain.val)) ELSE plain

LoadVault(password) ==
    /\ res' = [Result("LoadVault", LoadVaultOf(fs[VaultPath], password))
                  EXCEPT !.arg = [pw |-> password], !.prev = fs[VaultPath],
                         !.live = Live(DeferredZero)]
    /\ UNCHANGED <<fs, stale, pc, sv, origin, sessionFile, now, machine, lvi, hist,
                 backups, cmd, log, call, clip>>

LoadVaultWithKey(key) ==
    /\ res' = [Result("LoadVaultWithKey", LoadVaultWithKeyOf(fs[VaultPath], key))
                  EXCEPT !.arg = key, !.prev = fs[VaultPath]]
    /\ UNCHANGED <<fs, stale, pc, sv, origin, sessionFile, now, machine, lvi, hist,
                 backups, cmd, log, call, clip>>

\* The keys a caller can hold: derived from a password, under either salt.
Keys == {DeriveKey(p, s, DefaultArgon2Params) : p \in Passwords, s \in {Salt1, Salt2}}

-----------------------------------------------------------------------------
(* The specification of the vault file *)

InitSave ==
    /\ fs = [p \in Paths |-> NoFile]
    /\ stale = 0
    /\ pc = "idle"
    /\ sv = NoSave
    /\ origin = NoOrigin
    /\ res = NoResult
    /\ sessionFile = NoFile
    /\ now = 0
    /\ machine = "m1"
    /\ lvi = NoLvi
    /\ hist = NoHist
    /\ backups = NoBackups
    /\ cmd = NoCmd
    /\ log = <<>>
    /\ call = NoCall
    /\ clip = NoClip

NextSave ==
    \/ \E v \in Vaults, p \in Passwords, n \in Nonces : SaveVault(v, p, n)
    \/ SaveCreateTemp
    \/ SaveWrite
    \/ SaveSync
    \/ SaveChmod
    \/ SaveRename
    \/ Crash
    \/ \E p \in Passwords : LoadVault(p)
    \/ \E k \in Keys : LoadVaultWithKey(k)

SpecSave == InitSave /\ [][NextSave]_vars

-----------------------------------------------------------------------------
(* Claims about the vault file, checked under SpecSave *)

\* The key SaveVault derived for the file now at the vault path.
OriginKey == DeriveKey(origin.pw, origin.v.salt, origin.v.kdf)

\* C1: while a save is before its rename (at any step, after a crash at any
\* step, and for a load running beside it) the file at the vault path is the
\* one the save found; after the rename it is the complete new envelope; the
\* vault path never holds an empty or partly written file.
C1_AtomicSave ==
    /\ fs[VaultPath].st \in {"none", "full"}
    /\ pc \in SaveSteps => fs[VaultPath] = sv.prev
    /\ (pc \in SaveSteps /\ res.op \in {"LoadVault", "LoadVaultWithKey"})
          => res.prev = sv.prev
    /\ (pc = "idle" /\ res.op = "save" /\ res.err = "crashed")
          => fs[VaultPath] = res.prev
    /\ (pc = "idle" /\ res.op = "save" /\ res.ok)
          => fs[VaultPath] = FullFile(res.val)

\* A save onto an existing vault has written its whole temporary file, which
\* differs from the vault, and has not renamed it yet.
C1_Witness ==
    /\ pc = "rename"
    /\ sv.prev.st = "full"
    /\ fs[sv.tmp] = FullFile(sv.data)
    /\ sv.data # sv.prev.data

\* C2: when a save returns an error (temporary-file creation, write, sync,
\* chmod or rename failed) the file at the vault path is the one the save
\* found and the temporary file the save created does not exist.
C2_FailedSaveCleansUp ==
    (pc = "idle" /\ res.op = "save" /\ ~res.ok /\ res.err # "crashed")
      => /\ fs[VaultPath] = res.prev
         /\ res.tmp # "none" => ~Exists(fs[res.tmp])

\* The rename of a save onto an existing vault failed.
C2_Witness ==
    /\ pc = "idle"
    /\ res.op = "save"
    /\ res.err = "rename"
    /\ res.tmp = TmpPath
    /\ res.prev.st = "full"

\* C3: LoadVault with the password of the SaveVault that wrote the file
\* succeeds and returns the account list the caller saved.
C3_SaveLoadRoundTrip ==
    (res.op = "LoadVault" /\ origin.pw # "none" /\ res.arg.pw = origin.pw)
      => /\ res.ok
         /\ res.val.accounts = origin.v.accounts

-----------------------------------------------------------------------------
(* The session cache *)

\* The TTL LoadVaultInteractive gives the session, in minutes.
SessionTTL == 5

Machines == {"m1", "m2"}

\* getMachineKey: SHA-256 of hostname, uid and a fixed suffix.
MachineKey(m) == [seed |-> m]

\* The seal of a file whose bytes were altered: no machine key opens it.
TamperedSeal == [seed |-> "tampered"]

\* Sealed bytes that are not the JSON of a Session.
NotJSON == [notjson |-> TRUE]

\* Session{Key, ExpiresAt}
Session(key, expiresAt) == [key |-> key, expiresAt |-> expiresAt]

\* Contents of session.bin: nonce || gcm.Seal(plaintext), fewer bytes than a
\* nonce, or a file whose permission bits deny reading and writing (it can
\* still be removed, which needs only the directory).
SealedFile(mk, plain) == [st |-> "sealed", data |-> [mk |-> mk, plain |-> plain]]
ShortFile == [st |-> "short", data |-> Nil]
UnreadableFile == [st |-> "unreadable", data |-> Nil]

\* A faulty variant of Expired: the session is dropped at its deadline.
ExpiredAtDeadline(t, expiresAt) == t >= expiresAt

\* time.Now().After(session.ExpiresAt)
Expired(t, expiresAt) == t > expiresAt

\* A faulty variant of SaveSessionOf: the duration is not added to the clock.
SaveSessionNoTTL(f, m, t, key, duration) ==
    IF f.st = "unreadable"
    THEN [err |-> "write", file |-> f]
    ELSE [err |-> "none", file |-> SealedFile(MachineKey(m), Session(key, t))]

\* vault.SaveSession on session file f, machine m, at time t
SaveSessionOf(f, m, t, key, duration) ==
    IF f.st = "unreadable"
    THEN [err |-> "write", file |-> f]
    ELSE [err |-> "none",
          file |-> SealedFile(MachineKey(m), Session(key, t + duration))]

\* A faulty variant of GetSessionOf: a session that answers is extended.
GetSessionSliding(f, m, t) ==
    IF f.st = "none" THEN [key |-> Nil, err |-> "none", file |-> f]
    ELSE IF f.st = "unreadable" THEN [key |-> Nil, err |-> "read", file |-> f]
    ELSE IF f.st = "short" THEN [key |-> Nil, err |-> "short", file |-> f]
    ELSE IF f.data.mk # MachineKey(m)
         THEN [key |-> Nil, err |-> "none", file |-> NoFile]
    ELSE IF f.data.plain = NotJSON
         THEN [key |-> Nil, err |-> "json", file |-> f]
    ELSE IF t > f.data.plain.expiresAt
         THEN [key |-> Nil, err |-> "none", file |-> NoFile]
    ELSE [key |-> f.data.plain.key, err |-> "none",
          file |-> SealedFile(f.data.mk, [f.data.plain EXCEPT
                                            !.expiresAt = t + SessionTTL])]

\* A faulty variant of GetSessionOf: the cache never answers.
GetSessionNever(f, m, t) == [key |-> Nil, err |-> "none", file |-> f]

\* vault.GetSession on session file f, machine m, at time t: the key or Nil,
\* the error, and the file it leaves.
GetSessionOf(f, m, t) ==
    IF f.st = "none" THEN [key |-> Nil, err |-> "none", file |-> f]
    ELSE IF f.st = "unreadable" THEN [key |-> Nil, err |-> "read", file |-> f]
    ELSE IF f.st = "short" THEN [key |-> Nil, err |-> "short", file |-> f]
    ELSE IF f.data.mk # MachineKey(m)
         THEN [key |-> Nil, err |-> "none", file |-> NoFile]
    ELSE IF f.data.plain = NotJSON
         THEN [key |-> Nil, err |-> "json", file |-> f]
    ELSE IF Expired(t, f.data.plain.expiresAt)
         THEN [key |-> Nil, err |-> "none", file |-> NoFile]
    ELSE [key |-> f.data.plain.key, err |-> "none", file |-> f]

\* A faulty variant of ClearSessionOf: the file is not removed.
ClearSessionKeeps(f) ==
    [err |-> IF Exists(f) THEN "none" ELSE "notexist", file |-> f]

\* vault.ClearSession: os.Remove(path)
ClearSessionOf(f) ==
    [err |-> IF Exists(f) THEN "none" ELSE "notexist", file |-> NoFile]

\* What the session file is to a load of vault file vf on machine m at time t.
SessionClass(f, m, t, vf) ==
    IF ~Exists(f) THEN "absent"
    ELSE IF f.st = "unreadable" THEN "unreadable"
    ELSE IF f.st = "short" THEN "short"
    ELSE IF f.data.mk # MachineKey(m) THEN "undecryptable"
    ELSE IF f.data.plain = NotJSON THEN "notjson"
    ELSE IF t > f.data.plain.expiresAt THEN "expired"
    ELSE IF ~LoadVaultWithKeyOf(vf, f.data.plain.key).ok THEN "wrongkey"
    ELSE "valid"

Class == SessionClass(sessionFile, machine, now, fs[VaultPath])

\* The result of a session operation, with the class of the file it met.
SessionResult(op, r) == [Result(op, r) EXCEPT !.pre = Class, !.at = now]

SaveSession(key, duration) ==
    /\ pc = "idle"
    /\ LET s == SaveSessionOf(sessionFile, machine, now, key, duration)
       IN /\ sessionFile' = s.file
          /\ res' = SessionResult("SaveSession",
                                  IF s.err = "none" THEN Ok(Nil) ELSE Err(s.err))
          /\ hist' = IF s.err = "none"
                     THEN [st |-> "saved", key |-> key, exp |-> now + duration]
                     ELSE hist
    /\ UNCHANGED <<fs, stale, pc, sv, origin, now, machine, lvi,
                 backups, cmd, log, call, clip>>

GetSession ==
    /\ pc = "idle"
    /\ LET g == GetSessionOf(sessionFile, machine, now)
       IN /\ sessionFile' = g.file
          /\ res' = SessionResult("GetSession",
                                  IF g.err = "none" THEN Ok(g.key) ELSE Err(g.err))
    /\ UNCHANGED <<fs, stale, pc, sv, origin, now, machine, lvi, hist,
                 backups, cmd, log, call, clip>>

ClearSession ==
    /\ pc = "idle"
    /\ LET c == ClearSessionOf(sessionFile)
       IN /\ sessionFile' = c.file
          /\ res' = SessionResult("ClearSession",
                                  IF c.err = "none" THEN Ok(Nil) ELSE Err(c.err))
    /\ hist' = [st |-> "cleared", key |-> Nil, exp |-> 0]
    /\ UNCHANGED <<fs, stale, pc, sv, origin, now, machine, lvi,
                 backups, cmd, log, call, clip>>

-----------------------------------------------------------------------------
(* LoadVaultInteractive *)

\* A faulty variant of SessionAttempt: a session that fails to load the vault is fatal.
SessionAttemptStrict(vf, g) ==
    IF g.err # "none" THEN [done |-> TRUE, r |-> Err(g.err)]
    ELSE IF g.key = Nil THEN [done |-> FALSE, r |-> Err("nosession")]
    ELSE LET v == LoadVaultWithKeyOf(vf, g.key)
         IN [done |-> TRUE,
             r |-> IF v.ok THEN Ok([vault |-> v.val, key |-> g.key]) ELSE v]

\* key, _ := GetSession(); if key != nil, try LoadVaultWithKey and return on
\* success.  The error of GetSession is dropped.
SessionAttempt(vf, g) ==
    IF g.key = Nil THEN [done |-> FALSE, r |-> Err("nosession")]
    ELSE LET v == LoadVaultWithKeyOf(vf, g.key)
         IN IF v.ok
            THEN [done |-> TRUE, r |-> Ok([vault |-> v.val, key |-> g.key])]
            ELSE [done |-> FALSE, r |-> v]

LviResult(r, pre, prompts, answer) ==
    [Result("LVI", r) EXCEPT !.pre = pre, !.prompts = prompts,
                             !.arg = [pw |-> answer], !.at = now,
                             !.live = Live(PromptedSecrets(prompts, answer))]

\* LoadVaultInteractive up to the call of promptFunc.
LVIStart ==
    /\ pc = "idle"
    /\ LET g == GetSessionOf(sessionFile, machine, now)
           a == SessionAttempt(fs[VaultPath], g)
           m == ReadMetadata(fs[VaultPath])
       IN /\ sessionFile' = g.file
          /\ IF a.done
             THEN /\ res' = LviResult(a.r, Class, 0, "none")
                  /\ UNCHANGED <<pc, lvi>>
             ELSE IF ~m.ok
             THEN /\ res' = LviResult(m, Class, 0, "none")
                  /\ UNCHANGED <<pc, lvi>>
             ELSE IF Len(m.val.salt) = 0
             THEN /\ res' = LviResult(Err("missing salt"), Class, 0, "none")
                  /\ UNCHANGED <<pc, lvi>>
             ELSE /\ pc' = "prompt"
                  /\ lvi' = [pre |-> Class, meta |-> m.val]
                  /\ res' = Result("prompting", Ok(Nil))
    /\ UNCHANGED <<fs, stale, sv, origin, now, machine, hist,
                 backups, cmd, log, call, clip>>

\* A faulty variant of LVIPrompt: the session is saved as soon as the key is
\* derived, before the vault is loaded with it.
LVIPromptSavesFirst(answer) ==
    /\ pc = "prompt"
    /\ pc' = "idle"
    /\ lvi' = NoLvi
    /\ IF answer = PromptError
       THEN /\ res' = LviResult(Err("prompt"), lvi.pre, 1, answer)
            /\ UNCHANGED <<sessionFile, hist>>
       ELSE LET key == DeriveKey(answer, lvi.meta.salt, lvi.meta.kdf)
                v == LoadVaultWithKeyOf(fs[VaultPath], key)
                s == SaveSessionOf(sessionFile, machine, now, key, SessionTTL)
            IN /\ sessionFile' = s.file
               /\ hist' = IF s.err = "none"
                          THEN [st |-> "saved", key |-> key,
                                exp |-> now + SessionTTL]
                          ELSE hist
               /\ res' = LviResult(IF v.ok THEN Ok([vault |-> v.val, key |-> key])
                                   ELSE Err("invalid master password"),
                                   lvi.pre, 1, answer)
    /\ UNCHANGED <<fs, stale, sv, origin, now, machine,
                 backups, cmd, log, call, clip>>

\* promptFunc returns; the key is derived, the vault loaded and the session
\* refreshed.
LVIPrompt(answer) ==
    /\ pc = "prompt"
    /\ pc' = "idle"
    /\ lvi' = NoLvi
    /\ IF answer = PromptError
       THEN /\ res' = LviResult(Err("prompt"), lvi.pre, 1, answer)
            /\ UNCHANGED <<sessionFile, hist>>
       ELSE LET key == DeriveKey(answer, lvi.meta.salt, lvi.meta.kdf)
                v == LoadVaultWithKeyOf(fs[VaultPath], key)
                s == SaveSessionOf(sessionFile, machine, now, key, SessionTTL)
            IN IF ~v.ok
               THEN /\ res' = LviResult(Err("invalid master password"),
                                        lvi.pre, 1, answer)
                    /\ UNCHANGED <<sessionFile, hist>>
               ELSE /\ sessionFile' = s.file
                    /\ hist' = IF s.err = "none"
                               THEN [st |-> "saved", key |-> key,
                                     exp |-> now + SessionTTL]
                               ELSE hist
                    /\ res' = LviResult(Ok([vault |-> v.val, key |-> key]),
                                        lvi.pre, 1, answer)
    /\ UNCHANGED <<fs, stale, sv, origin, now, machine,
                 backups, cmd, log, call, clip>>

-----------------------------------------------------------------------------
(* The environment of the session cache *)

Tick ==
    /\ now < MaxTime
    /\ now' = now + 1
    /\ UNCHANGED <<fs, stale, pc, sv, origin, res, sessionFile, machine, lvi, hist,
                 backups, cmd, log, call, clip>>

\* Between two commands the session file is truncated, altered, replaced by
\* sealed bytes that are no Session, or made unreadable.
CorruptSession(f) ==
    /\ pc = "idle"
    /\ Exists(sessionFile)
    /\ sessionFile # f
    /\ sessionFile' = f
    /\ hist' = NoHist
    /\ res' = Result("env", Ok(Nil))
    /\ UNCHANGED <<fs, stale, pc, sv, origin, now, machine, lvi,
                 backups, cmd, log, call, clip>>

Corruptions ==
    {ShortFile, UnreadableFile, SealedFile(TamperedSeal, NotJSON),
     SealedFile(MachineKey(machine), NotJSON)}

\* The hostname or the uid changes between two commands.
ChangeMachine(m) ==
    /\ pc = "idle"
    /\ m # machine
    /\ machine' = m
    /\ hist' = IF hist.st = "saved" THEN NoHist ELSE hist
    /\ res' = Result("env", Ok(Nil))
    /\ UNCHANGED <<fs, stale, pc, sv, origin, sessionFile, now, lvi,
                 backups, cmd, log, call, clip>>

-----------------------------------------------------------------------------
(* The specification of the session cache and the interactive load *)

SessionKeys == {DeriveKey(p, Salt1, DefaultArgon2Params) : p \in Passwords}
Durations == {0, 1, SessionTTL}

\* A faulty variant of SavedFile: every save draws a fresh salt.
SavedFileNewSalt(v, password, nonce) ==
    LET w == [v EXCEPT !.salt = IF @ = Salt1 THEN Salt2 ELSE Salt1]
    IN FullFile(Metadata(w, MarshalWithKey(w, DeriveKey(password, w.salt, w.kdf),
                                           nonce).val))

\* The vault file SaveVault writes for v under password.
SavedFile(v, password, nonce) ==
    FullFile(Metadata(v, MarshalWithKey(v, DeriveKey(password, v.salt, v.kdf),
                                        nonce).val))

InitSession ==
    /\ \E v \in Vaults :
          /\ fs = [p \in Paths |-> IF p = VaultPath
                                   THEN SavedFile(v, "p1", "n0") ELSE NoFile]
          /\ origin = [NoOrigin EXCEPT !.v = v, !.pw = "p1", !.master = "p1"]
    /\ stale = 0
    /\ pc = "idle"
    /\ sv = NoSave
    /\ res = NoResult
    /\ sessionFile = NoFile
    /\ now = 0
    /\ machine = "m1"
    /\ lvi = NoLvi
    /\ hist = NoHist
    /\ backups = NoBackups
    /\ cmd = NoCmd
    /\ log = <<>>
    /\ call = NoCall
    /\ clip = NoClip

NextSession ==
    \/ \E k \in SessionKeys, d \in Durations : SaveSession(k, d)
    \/ GetSession
    \/ ClearSession
    \/ LVIStart
    \/ \E a \in Passwords \cup {PromptError} : LVIPrompt(a)
    \/ Tick
    \/ \E f \in Corruptions : CorruptSession(f)
    \/ \E m \in Machines : ChangeMachine(m)

SpecSession == InitSession /\ [][NextSession]_vars

-----------------------------------------------------------------------------
(* Claims about the session cache, checked under SpecSession *)

\* What a load of the vault file returns for the vault the caller saved.
OriginVault == VaultFromJSON(VaultJSON(origin.v))

\* C5: when the session is unexpired and holds a key that decrypts the
\* vault, LoadVaultInteractive returns the vault and that key and never
\* calls the prompt.
C5_SessionSkipsPrompt ==
    (res.op = "LVI" /\ res.pre = "valid")
      => /\ res.ok
         /\ res.prompts = 0
         /\ res.val = [vault |-> OriginVault, key |-> OriginKey]

\* A load answered by a session that was saved some time before.
C5_Witness ==
    /\ res.op = "LVI"
    /\ res.pre = "valid"
    /\ res.ok
    /\ hist.st = "saved"
    /\ res.at > 0
    /\ res.at = hist.exp

\* C6: when the session is missing, expired or holds a key that does not
\* decrypt the vault, LoadVaultInteractive calls the prompt exactly once; if
\* the password entered is the right one it returns the vault, and the
\* session file then holds the derived key with an expiry 5 minutes after
\* the load.
C6_PromptRefreshesSession ==
    (res.op = "LVI" /\ res.pre \in {"absent", "expired", "wrongkey"})
      => /\ res.prompts = 1
         /\ res.arg.pw = origin.pw
              => /\ res.ok
                 /\ res.val = [vault |-> OriginVault, key |-> OriginKey]
                 /\ sessionFile =
                      SealedFile(MachineKey(machine),
                                 Session(OriginKey, res.at + SessionTTL))

\* A load that met an expired session, prompted, and was given the right
\* password.
C6_Witness ==
    /\ res.op = "LVI"
    /\ res.pre = "expired"
    /\ res.arg.pw = origin.pw
    /\ res.ok
    /\ now > res.at

\* C7: whatever the session file holds, LoadVaultInteractive on a readable
\* vault succeeds and returns the vault when the prompt, if called, returns
\* the right password.
C7_SessionNeverFatal ==
    (res.op = "LVI" /\ (res.prompts = 1 => res.arg.pw = origin.pw))
      => /\ res.ok
         /\ res.val.vault = OriginVault

\* A load that met a session file whose sealed bytes are not JSON.
C7_Witness ==
    /\ res.op = "LVI"
    /\ res.pre = "notjson"
    /\ res.prompts = 1
    /\ res.ok

\* C8: with the last SaveSession(key, ttl) not followed by another
\* SaveSession or a ClearSession, GetSession at a time not after save time +
\* ttl returns key; later it returns no key and no error, and the session
\* file is gone.
C8_SessionUntilExpiry ==
    (res.op = "GetSession" /\ hist.st = "saved")
      => IF res.at <= hist.exp
         THEN res.ok /\ res.val = hist.key
         ELSE res.ok /\ res.val = Nil /\ ~Exists(sessionFile)

\* GetSession ran after the expiry of a session saved with a positive ttl.
C8_Witness ==
    /\ res.op = "GetSession"
    /\ hist.st = "saved"
    /\ hist.exp > 0
    /\ res.at > hist.exp
    /\ res.pre = "expired"

\* C9: when the session file exists and cannot be decrypted under the
\* machine key, GetSession returns no key and no error and the file is gone.
C9_UndecryptableSessionDropped ==
    (res.op = "GetSession" /\ res.pre \in {"short", "undecryptable"})
      => /\ res.ok
         /\ res.val = Nil
         /\ ~Exists(sessionFile)

\* C10: from a ClearSession to the next SaveSession the session file does
\* not exist and every GetSession, also the one LoadVaultInteractive makes,
\* returns no key.
C10_ClearedUntilSaved ==
    hist.st = "cleared"
      => /\ ~Exists(sessionFile)
         /\ res.op = "GetSession" => (res.ok /\ res.val = Nil)
         /\ res.op = "LVI" => res.prompts = 1

\* GetSession ran some time after a ClearSession.
C10_Witness ==
    /\ hist.st = "cleared"
    /\ res.op = "GetSession"
    /\ res.at > 0

-----------------------------------------------------------------------------
(* The session cache as the commands use it: only LoadVaultInteractive saves *)

NextLvi ==
    \/ LVIStart
    \/ \E a \in Passwords \cup {PromptError} : LVIPrompt(a)
    \/ ClearSession
    \/ Tick
    \/ \E f \in Corruptions : CorruptSession(f)

SpecLvi == InitSession /\ [][NextLvi]_vars

\* C28: a LoadVaultInteractive that succeeds through the cached session key
\* leaves the session file as it was, and it succeeds that way only up to
\* SessionTTL minutes after the last password entry that saved the session
\* (whose expiry, hist.exp, is the time of that entry plus SessionTTL).
C28_NoSlidingExpiry ==
    /\ [][(res'.op = "LVI" /\ res'.ok /\ res'.prompts = 0)
            => sessionFile' = sessionFile]_vars
    /\ []((res.op = "LVI" /\ res.ok /\ res.prompts = 0)
            => /\ hist.st = "saved"
               /\ res.at - (hist.exp - SessionTTL) <= SessionTTL)

\* A load without a prompt in the last minute of the session, some time ago.
C28_Witness ==
    /\ res.op = "LVI"
    /\ res.ok
    /\ res.prompts = 0
    /\ hist.st = "saved"
    /\ res.at = hist.exp
    /\ res.at = SessionTTL + 1
    /\ now > res.at
    /\ sessionFile = SealedFile(MachineKey(machine), Session(hist.key, hist.exp))

\* C29: a LoadVaultInteractive whose prompt fails, or returns a password
\* that does not decrypt the vault, returns an error with no vault and no
\* key; up to the prompt it at most removes the session file, after the
\* prompt it leaves it as it is, and so the session file it leaves behind
\* holds no key that opens the vault.
C29_FailedAuthNoSession ==
    /\ [][/\ ((pc = "prompt" /\ pc' = "idle" /\ ~res'.ok)
               => (res'.val = Nil /\ sessionFile' = sessionFile))
           /\ ((pc = "idle" /\ pc' = "prompt")
               => sessionFile' \in {sessionFile, NoFile})]_vars
    /\ []((res.op = "LVI" /\ res.prompts = 1 /\ ~res.ok)
            => (res.val = Nil /\ Class # "valid"))

\* A wrong password was entered while the session file held a key that does
\* not open the vault: the load failed and the file is still there.
C29_Witness ==
    /\ res.op = "LVI"
    /\ res.prompts = 1
    /\ ~res.ok
    /\ res.err = "invalid master password"
    /\ res.pre = "wrongkey"
    /\ Class = "wrongkey"

\* C15: when Marshal, UnmarshalVault, SaveVault or LoadVaultInteractive
\* returns, on whatever path, the key it derived with DeriveKey and the
\* password it obtained from the prompt have been overwritten with zeros.
C15_SecretsZeroed ==
    (pc = "idle" /\ res.op \in {"save", "LoadVault", "LVI"}) => res.live = {}

-----------------------------------------------------------------------------
(* Backups *)

\* time.Now().Format("20060102150405") inside "<vault>.<timestamp>.bak": the
\* name keeps the clock to the second, so two calls in one second share it.
BackupPath(t) == <<VaultPath, t, "bak">>

\* filepath.Glob("<vault>.*.bak"): the timestamps of the backup files.
GlobBackups(b) == {t \in DOMAIN b : Exists(b[t])}

\* copyFile: the destination is created or truncated, then filled.
CopyFile(vf, b, t) == [b EXCEPT ![t] = vf]

\* cleanupOldBackups: sort the names and remove the first
\* len(matches) - maxBackups of them.
CleanupOldBackups(b, maxBackups) ==
    LET matches == GlobBackups(b)
        excess == Cardinality(matches) - maxBackups
    IN IF Cardinality(matches) <= maxBackups THEN b
       ELSE [t \in DOMAIN b |->
               IF t \in matches /\ Cardinality({u \in matches : u < t}) < excess
               THEN NoFile ELSE b[t]]

\* The ways copyFile fails: the source or the destination does not open, or
\* io.Copy stops after the destination was truncated.
CopyFailures == {"open", "copy"}

\* vault.CreateBackup of vault file vf at time t: the error and the backups.
CreateBackupOf(vf, b, t, maxBackups, failure) ==
    IF ~Exists(vf) THEN [err |-> "none", made |-> FALSE, backups |-> b]
    ELSE IF failure = "open" THEN [err |-> "open", made |-> FALSE, backups |-> b]
    ELSE IF failure = "copy"
         THEN [err |-> "copy", made |-> FALSE,
               backups |-> [b EXCEPT ![t] = PartialFile(vf.data)]]
    ELSE [err |-> "none", made |-> TRUE,
          backups |-> CleanupOldBackups(CopyFile(vf, b, t), maxBackups)]

\* One caller calls CreateBackup(path, cmd.max) again.
CreateBackup(failure) ==
    /\ cmd.name = "backup"
    /\ Len(log) < MaxCalls
    /\ LET c == CreateBackupOf(fs[VaultPath], backups, now, cmd.max, failure)
       IN /\ backups' = c.backups
          /\ log' = Append(log, [at |-> now, err |-> c.err])
          /\ res' = Result("CreateBackup",
                           IF c.err = "none" THEN Ok(BackupPath(now)) ELSE Err(c.err))
    /\ UNCHANGED <<fs, stale, pc, sv, origin, sessionFile, now, machine, lvi, hist,
                   cmd, call, clip>>

\* Time passes into a later second.
Later ==
    /\ now < MaxStamp
    /\ now' = now + 1
    /\ UNCHANGED <<fs, stale, pc, sv, origin, res, sessionFile, machine, lvi, hist,
                   backups, cmd, log, call, clip>>

\* Between two calls a save replaces the vault file.
VaultReplaced(v) ==
    /\ fs[VaultPath] # SavedFile(v, "p1", "n0")
    /\ fs' = [fs EXCEPT ![VaultPath] = SavedFile(v, "p1", "n0")]
    /\ origin' = [origin EXCEPT !.v = v, !.pw = "p1"]
    /\ UNCHANGED <<stale, pc, sv, res, sessionFile, now, machine, lvi, hist,
                   backups, cmd, log, call, clip>>

BackupLimits == 0..2

InitBackup ==
    /\ \E v \in Vaults :
          /\ fs = [p \in Paths |-> IF p = VaultPath
                                   THEN SavedFile(v, "p1", "n0") ELSE NoFile]
          /\ origin = [NoOrigin EXCEPT !.v = v, !.pw = "p1", !.master = "p1"]
    /\ \E m \in BackupLimits : cmd = [name |-> "backup", max |-> m]
    /\ stale = 0
    /\ pc = "idle"
    /\ sv = NoSave
    /\ res = NoResult
    /\ sessionFile = NoFile
    /\ now = 0
    /\ machine = "m1"
    /\ lvi = NoLvi
    /\ hist = NoHist
    /\ backups = NoBackups
    /\ log = <<>>
    /\ call = NoCall
    /\ clip = NoClip

NextBackup ==
    \/ \E f \in CopyFailures \cup {"none"} : CreateBackup(f)
    \/ Later
    \/ \E v \in Vaults : VaultReplaced(v)

SpecBackup == InitBackup /\ [][NextBackup]_vars

\* C11: starting from an existing vault file, after n > max_backups
\* successive CreateBackup(path, max_backups) calls that all succeeded,
\* exactly max_backups backup files exist and they are the files of the
\* max_backups most recent calls.
C11_KeepsNewestBackups ==
    LET n == Len(log)
        recent == {log[i].at : i \in (n - cmd.max + 1)..n}
    IN (cmd.name = "backup" /\ n > cmd.max
        /\ \A i \in 1..n : log[i].err = "none")
         => /\ Cardinality(GlobBackups(backups)) = cmd.max
            /\ GlobBackups(backups) = recent

-----------------------------------------------------------------------------
(* otpauth:// URIs and the accounts the commands build *)

\* The value of a query parameter as fmt.Sscanf(text, "%d", &n) reads it.
Sscanf(text) ==
    CASE text = "6" -> Ok(6)
      [] text = "9" -> Ok(9)
      [] text = "0" -> Ok(0)
      [] text = "30" -> Ok(30)
      [] OTHER -> Err("expected integer")

\* An otpauth URI: whether it starts with "otpauth://totp/", its label, and
\* the texts of its secret, digits and period parameters ("" when absent).
URI(prefix, label, secret, digits, period) ==
    [prefix |-> prefix, label |-> label, secret |-> secret,
     digits |-> digits, period |-> period]

NoURI == [nouri |-> TRUE]

URIs ==
    {URI(TRUE, <<"a">>, <<"a">>, "", ""),
     URI(TRUE, <<"a">>, <<"a">>, "9", "0"),
     URI(TRUE, <<"a">>, <<"a">>, "x", ""),
     URI(TRUE, <<"a">>, <<>>, "", "")}

\* vault.FromURI
FromURI(u) ==
    IF ~u.prefix THEN Err("invalid URI format")
    ELSE IF u.secret = <<>> THEN Err("missing secret in URI")
    ELSE LET digits == IF u.digits = "" THEN Ok(6) ELSE Sscanf(u.digits)
             period == IF u.period = "" THEN Ok(30) ELSE Sscanf(u.period)
         IN IF ~digits.ok THEN Err("invalid digits")
            ELSE IF ~period.ok THEN Err("invalid period")
            ELSE Ok([NewAccount(u.label, u.secret)
                       EXCEPT !.digits = digits.val, !.period = period.val])

\* An integer flag of the command line: not given, or given with a value.
Unset == Nil
Given(n) == [n |-> n]

\* The account add builds from its flags: NewAccount, then the digits and
\* the period when their flags were given.
AccountFromFlags(name, secret, digits, period) ==
    [NewAccount(name, secret)
       EXCEPT !.digits = IF digits = Unset THEN @ ELSE digits.n,
              !.period = IF period = Unset THEN @ ELSE period.n]

-----------------------------------------------------------------------------
(* The commands: init, add, edit, remove, import, passwd *)

\* The number of backups every command asks CreateBackup to keep.
MaxBackups == 3

Salts == {Salt1, Salt2}
Answers == Passwords \cup {PromptError}

\* vault.LoadVaultInteractive as a function of the files it reads and of the
\* answer of the prompt, when it is called: the result, the session file it
\* leaves, the number of prompts and whether it saved a session.
LoadVaultInteractiveOf(vf, sf, m, t, answer) ==
    LET g == GetSessionOf(sf, m, t)
        a == SessionAttempt(vf, g)
        md == ReadMetadata(vf)
        quit(r, n) == [r |-> r, session |-> g.file, prompts |-> n, saved |-> FALSE]
    IN IF a.done THEN quit(a.r, 0)
       ELSE IF ~md.ok THEN quit(md, 0)
       ELSE IF Len(md.val.salt) = 0 THEN quit(Err("missing salt"), 0)
       ELSE IF answer = PromptError THEN quit(Err("prompt"), 1)
       ELSE LET key == DeriveKey(answer, md.val.salt, md.val.kdf)
                v == LoadVaultWithKeyOf(vf, key)
                s == SaveSessionOf(g.file, m, t, key, SessionTTL)
            IN IF ~v.ok THEN quit(Err("invalid master password"), 1)
               ELSE [r |-> Ok([vault |-> v.val, key |-> key]),
                     session |-> s.file, prompts |-> 1,
                     saved |-> s.err = "none"]

\* A faulty variant of SavedFileWithKey: the envelope carries another salt.
SavedFileOtherSalt(v, key, nonce) ==
    FullFile([Metadata(v, MarshalWithKey(v, key, nonce).val)
                EXCEPT !.salt = IF @ = Salt1 THEN Salt2 ELSE Salt1])

\* The vault file SaveVaultWithKey writes for v under key.
SavedFileWithKey(v, key, nonce) ==
    FullFile(Metadata(v, MarshalWithKey(v, key, nonce).val))

\* The first account whose name equals name (strings.EqualFold), or 0.
FindAccount(v, name) ==
    IF \E i \in DOMAIN v.accounts : v.accounts[i].name = name
    THEN CHOOSE i \in DOMAIN v.accounts :
            /\ v.accounts[i].name = name
            /\ \A j \in 1..(i - 1) : v.accounts[j].name # name
    ELSE 0

\* append(v.Accounts[:index], v.Accounts[index+1:]...)
RemoveAt(l, index) ==
    [i \in 1..(Len(l) - 1) |-> IF i < index THEN l[i] ELSE l[i + 1]]

\* The loop of import: every imported account that is no duplicate of an
\* account already held is appended.
RECURSIVE AppendNew(_, _)
AppendNew(held, imported) ==
    IF imported = <<>> THEN held
    ELSE IF \E i \in DOMAIN held : held[i].name = Head(imported).name
         THEN AppendNew(held, Tail(imported))
         ELSE AppendNew(Append(held, Head(imported)), Tail(imported))

\* The "uri" format of import: one URI per line, invalid lines are skipped.
RECURSIVE AccountsOfLines(_)
AccountsOfLines(lines) ==
    IF lines = <<>> THEN <<>>
    ELSE LET a == FromURI(Head(lines))
         IN IF a.ok THEN <<a.val>> \o AccountsOfLines(Tail(lines))
            ELSE AccountsOfLines(Tail(lines))

\* What LoadVaultInteractive did to the session history.
HistAfterLoad(l, t) ==
    IF l.saved
    THEN [st |-> "saved", key |-> l.r.val.key, exp |-> t + SessionTTL]
    ELSE hist

\* The command returns before its backup and save.
Ends(c, r, l) ==
    /\ res' = Result(c, r)
    /\ sessionFile' = l.session
    /\ hist' = HistAfterLoad(l, now)
    /\ log' = <<>>
    /\ UNCHANGED <<pc, cmd>>

\* The command holds the changed vault and goes on to its backup or save.
Proceeds(c, v, key, password, next, l) ==
    /\ Len(v.accounts) <= MaxAccounts
    /\ cmd' = [name |-> c, v |-> v, key |-> key, pw |-> password]
    /\ pc' = next
    /\ res' = NoResult
    /\ sessionFile' = l.session
    /\ hist' = HistAfterLoad(l, now)
    /\ log' = <<>>

\* A command that made no interactive load leaves the session file alone.
NoLoad == [session |-> sessionFile, saved |-> FALSE]

\* What init was run with: the --force flag and what the password prompts
\* it reached returned.
InitRun(r, force, entered) ==
    [r EXCEPT !.arg = [force |-> force, entered |-> entered],
              !.prompts = Len(entered)]

\* A faulty variant of InitVault: the vault file is not looked for.
InitVaultAlways(force, password, confirm, salt) ==
    /\ pc = "idle"
    /\ cmd = NoCmd
    /\ IF password # confirm
       THEN /\ res' = InitRun(Result("init", Err("passwords do not match")),
                              force, <<password, confirm>>)
            /\ UNCHANGED <<pc, cmd>>
       ELSE /\ res' = InitRun(NoResult, force, <<password, confirm>>)
            /\ cmd' = [name |-> "init", v |-> NewVault(salt), key |-> Nil,
                       pw |-> password]
            /\ pc' = "cmd-save"
    /\ log' = <<>>
    /\ UNCHANGED <<fs, stale, sv, origin, sessionFile, now, machine, lvi, hist,
                   backups, call, clip>>

\* gotp init [--force]: os.Stat, the two password prompts, SecureCompare,
\* GenerateSalt and NewVault; SaveVault is the step CmdSave.
InitVault(force, password, confirm, salt) ==
    /\ pc = "idle"
    /\ cmd = NoCmd
    /\ IF Exists(fs[VaultPath]) /\ ~force
       THEN /\ res' = InitRun(Result("init", Err("vault already exists")),
                              force, <<>>)
            /\ UNCHANGED <<pc, cmd>>
       ELSE IF password # confirm
       THEN /\ res' = InitRun(Result("init", Err("passwords do not match")),
                              force, <<password, confirm>>)
            /\ UNCHANGED <<pc, cmd>>
       ELSE /\ res' = InitRun(NoResult, force, <<password, confirm>>)
            /\ cmd' = [name |-> "init", v |-> NewVault(salt), key |-> Nil,
                       pw |-> password]
            /\ pc' = "cmd-save"
    /\ log' = <<>>
    /\ UNCHANGED <<fs, stale, sv, origin, sessionFile, now, machine, lvi, hist,
                   backups, call, clip>>

\* gotp add, from --uri or from the name, --secret, --digits and --period
Add(answer, uri, digits, period) ==
    /\ pc = "idle"
    /\ cmd = NoCmd
    /\ LET l == LoadVaultInteractiveOf(fs[VaultPath], sessionFile, machine, now, answer)
           acc == IF uri # NoURI THEN FromURI(uri)
                  ELSE Ok(AccountFromFlags(<<"a">>, <<"a">>, digits, period))
       IN IF ~Exists(fs[VaultPath]) THEN Ends("add", Err("vault not found"), NoLoad)
          ELSE IF ~l.r.ok THEN Ends("add", l.r, l)
          ELSE IF ~acc.ok THEN Ends("add", acc, l)
          ELSE Proceeds("add",
                        [l.r.val.vault EXCEPT !.accounts = Append(@, acc.val)],
                        l.r.val.key, "none", "cmd-backup", l)
    /\ UNCHANGED <<fs, stale, sv, origin, now, machine, lvi, backups, call, clip>>

\* gotp edit <name> --secret <secret>, with the answer to the confirmation
Edit(answer, name, secret, confirm) ==
    /\ pc = "idle"
    /\ cmd = NoCmd
    /\ LET l == LoadVaultInteractiveOf(fs[VaultPath], sessionFile, machine, now, answer)
           v == l.r.val.vault
           index == FindAccount(v, name)
       IN IF ~l.r.ok THEN Ends("edit", l.r, l)
          ELSE IF index = 0 THEN Ends("edit", Err("account not found"), l)
          ELSE Proceeds("edit",
                        IF confirm
                        THEN [v EXCEPT !.accounts[index].secret = secret]
                        ELSE v,
                        l.r.val.key, "none", "cmd-save", l)
    /\ UNCHANGED <<fs, stale, sv, origin, now, machine, lvi, backups, call, clip>>

\* gotp remove <name> [--force], with the answer to the confirmation
Remove(answer, name, force, confirm) ==
    /\ pc = "idle"
    /\ cmd = NoCmd
    /\ LET l == LoadVaultInteractiveOf(fs[VaultPath], sessionFile, machine, now, answer)
           v == l.r.val.vault
           index == FindAccount(v, name)
       IN IF ~Exists(fs[VaultPath]) THEN Ends("remove", Err("vault not found"), NoLoad)
          ELSE IF ~l.r.ok THEN Ends("remove", l.r, l)
          ELSE IF index = 0 THEN Ends("remove", Err("account not found"), l)
          ELSE IF ~force /\ ~confirm THEN Ends("remove", Err("cancelled"), l)
          ELSE Proceeds("remove",
                        [v EXCEPT !.accounts = RemoveAt(@, index)],
                        l.r.val.key, "none", "cmd-backup", l)
    /\ UNCHANGED <<fs, stale, sv, origin, now, machine, lvi, backups, call, clip>>

\* gotp import <file>: imported is what the file parses to, or an error.
Import(answer, imported) ==
    /\ pc = "idle"
    /\ cmd = NoCmd
    /\ LET l == LoadVaultInteractiveOf(fs[VaultPath], sessionFile, machine, now, answer)
           v == l.r.val.vault
           all == AppendNew(v.accounts, imported.val)
       IN IF ~Exists(fs[VaultPath]) THEN Ends("import", Err("vault not found"), NoLoad)
          ELSE IF ~l.r.ok THEN Ends("import", l.r, l)
          ELSE IF ~imported.ok THEN Ends("import", imported, l)
          ELSE IF Len(all) = Len(v.accounts) THEN Ends("import", Ok(Nil), l)
          ELSE Proceeds("import", [v EXCEPT !.accounts = all],
                        l.r.val.key, "none", "cmd-backup", l)
    /\ UNCHANGED <<fs, stale, sv, origin, now, machine, lvi, backups, call, clip>>

\* What an import file parses to: the "uri" format, the "json" format, and
\* a file that does not parse.
Imports == {Ok(AccountsOfLines(<<u>>)) : u \in URIs} \cup {Err("failed to parse")}

\* A faulty variant of Passwd: the vault is saved under the key it was
\* loaded with.
PasswdKeepsKey(answer, newPassword, confirm) ==
    /\ pc = "idle"
    /\ cmd = NoCmd
    /\ LET l == LoadVaultInteractiveOf(fs[VaultPath], sessionFile, machine, now, answer)
       IN IF ~Exists(fs[VaultPath]) THEN Ends("passwd", Err("vault not found"), NoLoad)
          ELSE IF ~l.r.ok THEN Ends("passwd", l.r, l)
          ELSE IF newPassword # confirm
          THEN Ends("passwd", Err("passwords do not match"), l)
          ELSE Proceeds("passwd", l.r.val.vault, l.r.val.key, newPassword,
                        "cmd-backup", l)
    /\ UNCHANGED <<fs, stale, sv, origin, now, machine, lvi, backups, call, clip>>

\* gotp passwd
Passwd(answer, newPassword, confirm) ==
    /\ pc = "idle"
    /\ cmd = NoCmd
    /\ LET l == LoadVaultInteractiveOf(fs[VaultPath], sessionFile, machine, now, answer)
       IN IF ~Exists(fs[VaultPath]) THEN Ends("passwd", Err("vault not found"), NoLoad)
          ELSE IF ~l.r.ok THEN Ends("passwd", l.r, l)
          ELSE IF newPassword # confirm
          THEN Ends("passwd", Err("passwords do not match"), l)
          ELSE Proceeds("passwd", l.r.val.vault, Nil, newPassword, "cmd-backup", l)
    /\ UNCHANGED <<fs, stale, sv, origin, now, machine, lvi, backups, call, clip>>

\* if err := vault.CreateBackup(vaultPath, 3); err != nil { warn }
CmdBackup(failure) ==
    /\ pc = "cmd-backup"
    /\ LET c == CreateBackupOf(fs[VaultPath], backups, now, MaxBackups, failure)
       IN /\ backups' = c.backups
          /\ log' = Append(log, [ev |-> "backup", cmd |-> cmd.name,
                                 ok |-> c.made, file |-> c.backups[now]])
    /\ pc' = "cmd-save"
    /\ UNCHANGED <<fs, stale, sv, origin, res, sessionFile, now, machine, lvi, hist,
                   cmd, call, clip>>

\* vault.SaveVault (init, passwd) or vault.SaveVaultWithKey, as one step, and
\* the rest of the command: passwd clears the session.
CmdSave(failed, nonce) ==
    /\ pc = "cmd-save"
    /\ LET file == IF cmd.key = Nil
                   THEN SavedFile(cmd.v, cmd.pw, nonce)
                   ELSE SavedFileWithKey(cmd.v, cmd.key, nonce)
           behind == IF cmd.key = Nil THEN cmd.pw ELSE cmd.key.pw
       IN IF failed
          THEN /\ res' = Result(cmd.name, Err("save"))
               /\ UNCHANGED <<fs, origin, sessionFile, hist>>
          ELSE /\ fs' = [fs EXCEPT ![VaultPath] = file]
               /\ origin' = [v |-> cmd.v, pw |-> behind,
                             init |-> IF cmd.name = "init"
                                      THEN [salt |-> file.data.salt,
                                            kdf |-> file.data.kdf]
                                      ELSE origin.init,
                             master |-> IF cmd.name \in {"init", "passwd"}
                                        THEN cmd.pw ELSE origin.master]
               /\ res' = [Result(cmd.name, Ok(Nil)) EXCEPT
                            !.arg = IF cmd.name = "passwd"
                                    THEN [pw |-> cmd.pw, former |-> origin.master]
                                    ELSE @]
               /\ IF cmd.name = "passwd"
                  THEN /\ sessionFile' = ClearSessionOf(sessionFile).file
                       /\ hist' = [st |-> "cleared", key |-> Nil, exp |-> 0]
                  ELSE UNCHANGED <<sessionFile, hist>>
    /\ log' = Append(log, [ev |-> "save", cmd |-> cmd.name,
                           ok |-> ~failed, file |-> fs[VaultPath]])
    /\ cmd' = NoCmd
    /\ pc' = "idle"
    /\ UNCHANGED <<stale, sv, now, machine, lvi, backups, call, clip>>

\* A new password and its confirmation, as typed: the same, or not.
Entries == {<<p, p>> : p \in Passwords} \cup {<<"p1", "p2">>}

InitCmd ==
    /\ fs = [p \in Paths |-> NoFile]
    /\ stale = 0
    /\ pc = "idle"
    /\ sv = NoSave
    /\ origin = NoOrigin
    /\ res = NoResult
    /\ sessionFile = NoFile
    /\ now = 0
    /\ machine = "m1"
    /\ lvi = NoLvi
    /\ hist = NoHist
    /\ backups = NoBackups
    /\ cmd = NoCmd
    /\ log = <<>>
    /\ call = NoCall
    /\ clip = NoClip

NextCmd ==
    \/ \E force \in BOOLEAN, e \in Entries, s \in Salts : InitVault(force, e[1], e[2], s)
    \/ \E a \in Answers, u \in URIs : Add(a, u, Unset, Unset)
    \/ \E a \in Answers : Add(a, NoURI, Unset, Unset)
    \/ \E a \in Answers : Add(a, NoURI, Given(9), Given(0))
    \/ \E a \in Answers, n \in Names, c \in BOOLEAN : Edit(a, n, <<"b">>, c)
    \/ \E a \in Answers, n \in Names, c \in BOOLEAN : Remove(a, n, ~c, c)
    \/ \E a \in Answers, i \in Imports : Import(a, i)
    \/ \E a \in Answers, e \in Entries : Passwd(a, e[1], e[2])
    \/ \E f \in {"none", "open"} : CmdBackup(f)
    \/ \E failed \in BOOLEAN : CmdSave(failed, "n0")

SpecCmd == InitCmd /\ [][NextCmd]_vars

-----------------------------------------------------------------------------
(* Claims about the commands, checked under SpecCmd *)

\* C30: an init run without --force while a vault file exists reaches no
\* password prompt and leaves every file as it is; init goes on to its save
\* over an existing vault file, and its save replaces one, only when it was
\* run with --force and the two password entries were equal.
C30_InitKeepsVault ==
    [][/\ ((/\ pc = "idle"
            /\ pc' = "idle"
            /\ res'.op = "init"
            /\ res'.arg # Nil
            /\ ~res'.arg.force
            /\ Exists(fs[VaultPath]))
           => (res'.prompts = 0 /\ ~res'.ok /\ fs' = fs /\ backups' = backups))
       /\ ((/\ pc = "idle"
            /\ pc' = "cmd-save"
            /\ cmd'.name = "init"
            /\ Exists(fs[VaultPath]))
           => (/\ res'.arg.force
               /\ res'.arg.entered[1] = res'.arg.entered[2]))
       /\ ((/\ pc = "cmd-save"
            /\ cmd.name = "init"
            /\ Exists(fs[VaultPath])
            /\ fs'[VaultPath] # fs[VaultPath])
           => (/\ res.arg.force
               /\ res.arg.entered[1] = res.arg.entered[2]
               /\ res.arg.entered[1] = cmd.pw))]_vars

\* init without --force found a vault that holds an account and opens under
\* the master password: it asked for nothing and the vault is as it was.
C30_Witness ==
    /\ pc = "idle"
    /\ res.op = "init"
    /\ res.err = "vault already exists"
    /\ res.prompts = 0
    /\ origin.v # Nil
    /\ origin.v.accounts # <<>>
    /\ LoadVaultOf(fs[VaultPath], origin.master).ok
    /\ LoadVaultOf(fs[VaultPath], origin.master).val = origin.v

\* C12: in add, edit, remove and import, whenever a save replaces the vault
\* file, the command called CreateBackup earlier, and unless that call
\* reported a failure it made a backup copy of the file's previous content.
C12_BackupBeforeSave ==
    \A i \in DOMAIN log :
       (log[i].ev = "save" /\ log[i].ok
        /\ log[i].cmd \in {"add", "edit", "remove", "import"})
         => \E j \in 1..(i - 1) :
               /\ log[j].ev = "backup"
               /\ log[j].ok => log[j].file = log[i].file

\* C13: after any sequence of add, edit, remove, import and passwd commands
\* the salt and the KDF parameters of the envelope on disk, and those inside
\* the encrypted document, are the ones init wrote.
C13_SaltFixedAtInit ==
    origin.init # Nil
      => LET m == fs[VaultPath].data
         IN /\ fs[VaultPath].st = "full"
            /\ m.salt = origin.init.salt
            /\ m.kdf = origin.init.kdf
            /\ m.ciphertext.plain.salt = origin.init.salt
            /\ m.ciphertext.plain.kdf = origin.init.kdf

\* passwd changed the password of a vault that holds an account: the backup
\* it made is sealed under the former password.
C13_Witness ==
    /\ pc = "idle"
    /\ res.op = "passwd"
    /\ res.ok
    /\ origin.init # Nil
    /\ origin.v.accounts # <<>>
    /\ backups[now].st = "full"
    /\ backups[now].data.ciphertext.key.pw # origin.pw

\* C26: once init has created the vault, in every state the commands reach,
\* between their steps too, the vault file exists and a load with the master
\* password that the last init or passwd set, under the salt and the KDF
\* parameters of the file's envelope, decrypts it.
C26_VaultOpensUnderMaster ==
    origin.init # Nil
      => /\ fs[VaultPath].st = "full"
         /\ LoadVaultOf(fs[VaultPath], origin.master).ok

\* add saved the vault after a passwd had changed the master password.
C26_Witness ==
    /\ pc = "idle"
    /\ res.op = "add"
    /\ res.ok
    /\ origin.init # Nil
    /\ origin.master = "p2"
    /\ origin.v.accounts # <<>>
    /\ backups[now].st = "full"
    /\ LoadVaultOf(backups[now], "p2").ok

\* The state a successful passwd leaves: the new password loads the vault,
\* no session file exists, and the next interactive load prompts.
AfterPasswd ==
    /\ LoadVaultOf(fs[VaultPath], res.arg.pw).ok
    /\ ~Exists(sessionFile)
    /\ \A a \in Answers :
          LoadVaultInteractiveOf(fs[VaultPath], sessionFile, machine, now, a).prompts = 1

\* C27 as stated: after a successful passwd the new password loads the
\* vault, the old password does not, no session is cached and the next
\* command prompts.
C27_OldPasswordFails ==
    (pc = "idle" /\ res.op = "passwd" /\ res.ok)
      => /\ AfterPasswd
         /\ ~LoadVaultOf(fs[VaultPath], res.arg.former).ok

\* C27, amended: the old password fails to load the vault unless the new
\* password entered is the old one.
C27_OldPasswordFailsIfChanged ==
    (pc = "idle" /\ res.op = "passwd" /\ res.ok)
      => /\ AfterPasswd
         /\ res.arg.former # res.arg.pw
              => ~LoadVaultOf(fs[VaultPath], res.arg.former).ok

\* passwd changed the password while a session held the key of the old one.
C27_Witness ==
    /\ pc = "idle"
    /\ res.op = "passwd"
    /\ res.ok
    /\ res.arg.former # res.arg.pw
    /\ hist.st = "cleared"
    /\ \E i \in DOMAIN log : log[i].ev = "save" /\ log[i].ok
    /\ ~LoadVaultOf(fs[VaultPath], res.arg.former).ok

\* C17: every account held in a vault, whether add built it from its flags,
\* FromURI parsed it or import appended it, has 6 to 8 digits and a positive
\* period.
C17_AccountsWellFormed ==
    fs[VaultPath].st = "full"
      => \A a \in {fs[VaultPath].data.ciphertext.plain.accounts[i] :
                     i \in DOMAIN fs[VaultPath].data.ciphertext.plain.accounts} :
            /\ a.digits \in 6..8
            /\ a.period > 0

-----------------------------------------------------------------------------
(* Loads of vault files whose envelope has no salt *)

NoSalt == <<>>

\* The vaults a caller of the package can hold: NewVault(salt) with a
\* 16-byte salt, as init makes them, or with none.
LoadVaults == Vaults \cup {[v EXCEPT !.salt = NoSalt] : v \in Vaults}

\* An envelope of an older format: the salt field is missing.
WithoutSalt(f) == FullFile([f.data EXCEPT !.salt = NoSalt])

\* The vault files a load can meet: written by SaveVault, or of an older format.
LoadFiles ==
    {SavedFile(v, "p1", "n0") : v \in LoadVaults}
      \cup {WithoutSalt(SavedFile(v, "p1", "n0")) : v \in Vaults}

\* The keys a caller can hold, the ones derived without a salt among them.
LoadKeys == Keys \cup {DeriveKey(p, NoSalt, DefaultArgon2Params) : p \in Passwords}

InitLoad ==
    /\ \E f \in LoadFiles :
          /\ fs = [p \in Paths |-> IF p = VaultPath THEN f ELSE NoFile]
          /\ origin = [NoOrigin EXCEPT !.v = VaultFromJSON(f.data.ciphertext.plain),
                                    !.pw = "p1", !.master = "p1"]
    /\ \E k \in LoadKeys :
          sessionFile \in {NoFile,
                           SealedFile(MachineKey("m1"), Session(k, SessionTTL))}
    /\ stale = 0
    /\ pc = "idle"
    /\ sv = NoSave
    /\ res = NoResult
    /\ now = 0
    /\ machine = "m1"
    /\ lvi = NoLvi
    /\ hist = NoHist
    /\ backups = NoBackups
    /\ cmd = NoCmd
    /\ log = <<>>
    /\ call = NoCall
    /\ clip = NoClip

NextLoad ==
    \/ \E p \in Passwords : LoadVault(p)
    \/ \E k \in LoadKeys : LoadVaultWithKey(k)
    \/ LVIStart
    \/ \E a \in Answers : LVIPrompt(a)

SpecLoad == InitLoad /\ [][NextLoad]_vars

\* C14: a load of a vault file whose envelope has an empty salt, by
\* password, by key or interactive (with or without a cached session key),
\* fails with the corrupted-or-incompatible-vault error and returns no vault.
C14_EmptySaltRejected ==
    (fs[VaultPath].data.salt = NoSalt
     /\ res.op \in {"LoadVault", "LoadVaultWithKey", "LVI"})
      => /\ ~res.ok
         /\ res.err = "missing salt"
         /\ res.val = Nil

-----------------------------------------------------------------------------
(* Calls of the pure functions: crypto.Encrypt and crypto.Decrypt *)

\* The lengths, in bytes, of the keys a caller may pass.
KeyLengths == {0, 5, 16, 24, 31, 32, 33, 64}

\* A key of n bytes.
KeyOfLength(n) ==
    DeriveKey("p1", Salt1, [DefaultArgon2Params EXCEPT !.keyLength = n])

Plaintexts == {VaultJSON(v) : v \in Vaults}

\* The ciphertexts Encrypt returns.
Ciphertexts ==
    {Encrypt(p, KeyOfLength(n), nonce).val :
       p \in Plaintexts, n \in AESKeySizes, nonce \in Nonces}

\* The variables a call of a pure function does not touch.
files == <<fs, stale, pc, sv, origin, res, sessionFile, now, machine, lvi, hist,
           backups, cmd, log, clip>>

EncryptCall(plaintext, key, nonce) ==
    /\ call' = [fn |-> "Encrypt", args |-> [plaintext |-> plaintext, key |-> key],
                ret |-> Encrypt(plaintext, key, nonce)]
    /\ UNCHANGED files

DecryptCall(ciphertext, key) ==
    /\ call' = [fn |-> "Decrypt", args |-> [ciphertext |-> ciphertext, key |-> key],
                ret |-> Decrypt(ciphertext, key)]
    /\ UNCHANGED files

InitCall ==
    /\ fs = [p \in Paths |-> NoFile]
    /\ stale = 0
    /\ pc = "idle"
    /\ sv = NoSave
    /\ origin = NoOrigin
    /\ res = NoResult
    /\ sessionFile = NoFile
    /\ now = 0
    /\ machine = "m1"
    /\ lvi = NoLvi
    /\ hist = NoHist
    /\ backups = NoBackups
    /\ cmd = NoCmd
    /\ log = <<>>
    /\ call = NoCall
    /\ clip = NoClip

NextCrypto ==
    \/ \E p \in Plaintexts, n \in KeyLengths, nonce \in Nonces :
          EncryptCall(p, KeyOfLength(n), nonce)
    \/ \E c \in Ciphertexts, n \in KeyLengths : DecryptCall(c, KeyOfLength(n))

SpecCrypto == InitCall /\ [][NextCrypto]_vars

\* C16: for every key whose length is not 32 bytes Encrypt and Decrypt
\* return an error and no output.
C16_OnlyAES256Keys ==
    (call.fn \in {"Encrypt", "Decrypt"} /\ KeyLen(call.args.key) # 32)
      => /\ ~call.ret.ok
         /\ call.ret.val = Nil

-----------------------------------------------------------------------------
(* Time-based one-time passwords: the totp package *)

\* A time.Time is modelled by its Unix() value, whole seconds since the epoch,
\* negative before 1970.
MaxUnix == 61
Timestamps == -MaxUnix..MaxUnix

\* Go's integer division truncates toward zero and its remainder keeps the
\* sign of the dividend (b > 0 here).
GoDiv(a, b) == IF a >= 0 THEN a \div b ELSE -((-a) \div b)

\* The conversion uint64(q) of an int64: the value is n + wrap * 2^64.
Uint64(q) == [n |-> q, wrap |-> IF q < 0 THEN 1 ELSE 0]

\* The hash functions of the standard library, computed as FIPS 180-4
\* defines them, on byte strings that are sequences of numbers in 0..255.

\* The sequence f itself. TLC keeps a function expression unevaluated and
\* evaluates it anew at every application; SubSeq returns its elements.
Elements(f) == SubSeq(f, 1, Len(f))

\* 2^n for n in 0..16.
Pow2(n) ==
    <<1, 2, 4, 8, 16, 32, 64, 128, 256, 512, 1024, 2048, 4096, 8192, 16384,
      32768, 65536>>[n + 1]

\* (x & y) ^ (~x & z), (x & y) ^ (x & z) ^ (y & z) and x ^ y ^ z of three
\* integers below m^4, computed on their four digits in base m: m is 16 for
\* a 16-bit limb, 2 for one of its digits, and 1 for a single bit.
RECURSIVE BitCh(_, _, _, _)
BitCh(x, y, z, m) ==
    IF m = 1 THEN (IF x = 1 THEN y ELSE z)
    ELSE LET n == IF m = 16 THEN 2 ELSE 1
             digit(k) == BitCh((x \div k) % m, (y \div k) % m, (z \div k) % m, n)
         IN  digit(1) + m * digit(m) + m * m * digit(m * m)
             + m * m * m * digit(m * m * m)

RECURSIVE BitMaj(_, _, _, _)
BitMaj(x, y, z, m) ==
    IF m = 1 THEN (x + y + z) \div 2
    ELSE LET n == IF m = 16 THEN 2 ELSE 1
             digit(k) == BitMaj((x \div k) % m, (y \div k) % m, (z \div k) % m, n)
         IN  digit(1) + m * digit(m) + m * m * digit(m * m)
             + m * m * m * digit(m * m * m)

RECURSIVE BitParity(_, _, _, _)
BitParity(x, y, z, m) ==
    IF m = 1 THEN (x + y + z) % 2
    ELSE LET n == IF m = 16 THEN 2 ELSE 1
             digit(k) == BitParity((x \div k) % m, (y \div k) % m, (z \div k) % m, n)
         IN  digit(1) + m * digit(m) + m * m * digit(m * m)
             + m * m * m * digit(m * m * m)

\* x ^ y of two bytes or limbs.
BitXor(x, y) == BitParity(x, y, 0, 16)

\* A uint32 or uint64 of the hash functions is the sequence of its 16-bit
\* limbs, the most significant first.
Ch(x, y, z) == Elements([i \in DOMAIN x |-> BitCh(x[i], y[i], z[i], 16)])
Maj(x, y, z) == Elements([i \in DOMAIN x |-> BitMaj(x[i], y[i], z[i], 16)])
Parity(x, y, z) == Elements([i \in DOMAIN x |-> BitParity(x[i], y[i], z[i], 16)])

\* The sum of the words ws, at most five, wrapping.
AddWords(ws) ==
    LET n == Len(ws[1])
        column[i \in 1..n, k \in 0..Len(ws)] ==
            IF k = 0 THEN 0 ELSE column[i, k - 1] + ws[k][i]
        total[i \in 1..(n + 1)] ==
            IF i = n + 1 THEN 0
            ELSE column[i, Len(ws)] + (total[i + 1] \div 65536)
    IN  Elements([i \in 1..n |-> total[i] % 65536])

\* a >> k
ShiftRight(a, k) ==
    LET q == k \div 16
        low == Pow2(k % 16)
        high == Pow2(16 - (k % 16))
        limb(i) == IF i - q >= 1 THEN a[i - q] ELSE 0
    IN  Elements([i \in 1..Len(a) |->
           (limb(i) \div low) + (limb(i - 1) % low) * high])

\* bits.RotateLeft32(a, -k) and bits.RotateLeft64(a, -k)
RotateRight(a, k) ==
    LET n == Len(a)
        q == k \div 16
        low == Pow2(k % 16)
        high == Pow2(16 - (k % 16))
        limb(i) == a[((i - 1 - q) % n) + 1]
    IN  Elements([i \in 1..n |->
           (limb(i) \div low) + (limb(i - 1) % low) * high])

RotateLeft(a, k) == RotateRight(a, 16 * Len(a) - k)

\* The big-endian words of w limbs each that a byte string holds, and back.
WordsOf(bytes, w) ==
    Elements([j \in 1..(Len(bytes) \div (2 * w)) |->
       Elements([i \in 1..w |-> bytes[2 * w * (j - 1) + 2 * i - 1] * 256
                                 + bytes[2 * w * (j - 1) + 2 * i]])])

BytesOf(words, w) ==
    Elements([k \in 1..(Len(words) * 2 * w) |->
       LET limb == words[((k - 1) \div (2 * w)) + 1][(((k - 1) % (2 * w)) \div 2) + 1]
       IN  IF k % 2 = 1 THEN limb \div 256 ELSE limb % 256])

\* The k big-endian bytes of v, 0 <= v < 2^31.
BigEndian(v, k) ==
    Elements([i \in 1..k |->
       IF k - i >= 4 THEN 0
       ELSE (v \div <<1, 256, 65536, 16777216>>[k - i + 1]) % 256])

\* What Sum hashes: the data, the byte 0x80, zero bytes up to a whole number
\* of blocks, and the length of the data in bits.
PaddedMessage(data, blockSize, lenBytes) ==
    LET zeros == (blockSize - ((Len(data) + 1 + lenBytes) % blockSize)) % blockSize
    IN  data \o <<128>> \o [i \in 1..zeros |-> 0]
             \o BigEndian(8 * Len(data), lenBytes)



sha1Init ==
    << <<26437, 8961>>, <<61389, 43913>>, <<39098, 56574>>, <<4146, 21622>>, <<50130, 57840>> >>

sha1K ==
    << <<23170, 31129>>, <<28377, 60321>>, <<36635, 48348>>, <<51810, 49622>> >>

sha256Init ==
    << <<27145, 58983>>, <<47975, 44677>>, <<15470, 62322>>, <<42319, 62778>>,
      <<20750, 21119>>, <<39685, 26764>>, <<8067, 55723>>, <<23520, 52505>> >>

sha256K ==
    << <<17034, 12184>>, <<28983, 17553>>, <<46528, 64463>>, <<59829, 56229>>,
      <<14678, 49755>>, <<23025, 4593>>, <<37439, 33444>>, <<43804, 24277>>,
      <<55303, 43672>>, <<4739, 23297>>, <<9265, 34238>>, <<21772, 32195>>,
      <<29374, 23924>>, <<32990, 45566>>, <<39900, 1703>>, <<49563, 61812>>,
      <<58523, 27073>>, <<61374, 18310>>, <<4033, 40390>>, <<9228, 41420>>,
      <<11753, 11375>>, <<19060, 33962>>, <<23728, 43484>>, <<30457, 35034>>,
      <<38974, 20818>>, <<43057, 50797>>, <<45059, 10184>>, <<48985, 32711>>,
      <<50912, 3059>>, <<54695, 37191>>, <<1738, 25425>>, <<5161, 10599>>,
      <<10167, 2693>>, <<11803, 8504>>, <<19756, 28156>>, <<21304, 3347>>,
      <<25866, 29524>>, <<30314, 2747>>, <<33218, 51502>>, <<37490, 11397>>,
      <<41663, 59553>>, <<43034, 26187>>, <<49739, 35696>>, <<51052, 20899>>,
      <<53650, 59417>>, <<54937, 1572>>, <<62478, 13701>>, <<4202, 41072>>,
      <<6564, 49430>>, <<7735, 27656>>, <<10056, 30540>>, <<13488, 48309>>,
      <<14620, 3251>>, <<20184, 43594>>, <<23452, 51791>>, <<26670, 28659>>,
      <<29839, 33518>>, <<30885, 25455>>, <<33992, 30740>>, <<36039, 520>>,
      <<37054, 65530>>, <<42064, 27883>>, <<48889, 41975>>, <<50801, 30962>> >>

sha512Init ==
    << <<27145, 58983, 62396, 51464>>, <<47975, 44677, 33994, 42811>>,
      <<15470, 62322, 65172, 63531>>, <<42319, 62778, 24349, 14065>>,
      <<20750, 21119, 44518, 33489>>, <<39685, 26764, 11070, 27679>>,
      <<8067, 55723, 64321, 48491>>, <<23520, 52505, 4990, 8569>> >>

sha512K ==
    << <<17034, 12184, 55080, 44578>>, <<28983, 17553, 9199, 26061>>,
      <<46528, 64463, 60493, 15151>>, <<59829, 56229, 33161, 56252>>,
      <<14678, 49755, 62280, 46392>>, <<23025, 4593, 46597, 53273>>,
      <<37439, 33444, 44825, 20379>>, <<43804, 24277, 55917, 33048>>,
      <<55303, 43672, 41731, 578>>, <<4739, 23297, 17776, 28606>>,
      <<9265, 34238, 20196, 45708>>, <<21772, 32195, 54783, 46306>>,
      <<29374, 23924, 62075, 35183>>, <<32990, 45566, 15126, 38577>>,
      <<39900, 1703, 9671, 4661>>, <<49563, 61812, 53097, 9876>>,
      <<58523, 27073, 40689, 19154>>, <<61374, 18310, 14415, 9699>>,
      <<4033, 40390, 35724, 54709>>, <<9228, 41420, 30636, 40037>>,
      <<11753, 11375, 22827, 629>>, <<19060, 33962, 28326, 58499>>,
      <<23728, 43484, 48449, 64468>>, <<30457, 35034, 33553, 21429>>,
      <<38974, 20818, 61030, 57259>>, <<43057, 50797, 11700, 12816>>,
      <<45059, 10184, 39163, 8511>>, <<48985, 32711, 48879, 3812>>,
      <<50912, 3059, 15784, 36802>>, <<54695, 37191, 37642, 42789>>,
      <<1738, 25425, 57347, 33391>>, <<5161, 10599, 2574, 28272>>,
      <<10167, 2693, 18130, 12284>>, <<11803, 8504, 23590, 51494>>,
      <<19756, 28156, 23236, 10989>>, <<21304, 3347, 40341, 46047>>,
      <<25866, 29524, 35759, 25566>>, <<30314, 2747, 15479, 45736>>,
      <<33218, 51502, 18413, 44774>>, <<37490, 11397, 5250, 13627>>,
      <<41663, 59553, 19697, 868>>, <<43034, 26187, 48194, 12289>>,
      <<49739, 35696, 53496, 38801>>, <<51052, 20899, 1620, 48688>>,
      <<53650, 59417, 55023, 21016>>, <<54937, 1572, 21861, 43280>>,
      <<62478, 13701, 22385, 8234>>, <<4202, 41072, 12987, 53688>>,
      <<6564, 49430, 47314, 53448>>, <<7735, 27656, 20801, 43859>>,
      <<10056, 30540, 57230, 60313>>, <<13488, 48309, 57755, 18600>>,
      <<14620, 3251, 50633, 23139>>, <<20184, 43594, 58177, 35531>>,
      <<23452, 51791, 30563, 58227>>, <<26670, 28659, 54962, 47267>>,
      <<29839, 33518, 24047, 45820>>, <<30885, 25455, 17175, 12128>>,
      <<33992, 30740, 41456, 43890>>, <<36039, 520, 6756, 14828>>,
      <<37054, 65530, 9059, 7720>>, <<42064, 27883, 56962, 48617>>,
      <<48889, 41975, 45766, 30997>>, <<50801, 30962, 58226, 21291>>,
      <<51751, 16078, 59942, 24988>>, <<53638, 47303, 8640, 49671>>,
      <<60122, 32214, 52704, 60190>>, <<62845, 20351, 61038, 53624>>,
      <<1776, 26538, 29207, 28602>>, <<2659, 32197, 41672, 39078>>,
      <<4415, 38916, 48889, 3502>>, <<7025, 2869, 4892, 18203>>,
      <<10459, 30709, 8964, 32132>>, <<13002, 43899, 16583, 9363>>,
      <<15518, 48650, 5577, 48828>>, <<17181, 26564, 39952, 3404>>,
      <<19653, 54462, 52030, 17078>>, <<22911, 10652, 64613, 32298>>,
      <<24523, 28587, 15062, 64236>>, <<27716, 6540, 19015, 22551>> >>


\* crypto/sha1 (FIPS 180-4, 6.1).  The message schedule extended to n words;
\* the recursion halves the distance, which keeps the evaluation shallow.
RECURSIVE sha1Schedule(_, _)
sha1Schedule(w, n) ==
    LET t == Len(w) + 1
    IN  IF n < t THEN w
        ELSE IF n = t
        THEN Append(w, RotateLeft(Parity(Parity(w[t - 3], w[t - 8], w[t - 14]),
                                         w[t - 16], <<0, 0>>), 1))
        ELSE sha1Schedule(sha1Schedule(w, (t + n) \div 2), n)

\* Round t on the working variables a, b, c, d, e.
sha1Round(s, t, w) ==
    <<AddWords(<<RotateLeft(s[1], 5),
                 IF t <= 20 THEN Ch(s[2], s[3], s[4])
                 ELSE IF t > 40 /\ t <= 60 THEN Maj(s[2], s[3], s[4])
                 ELSE Parity(s[2], s[3], s[4]),
                 s[5], sha1K[((t - 1) \div 20) + 1], w[t]>>),
      s[1], RotateLeft(s[2], 30), s[3], s[4]>>

\* The rounds up to round n: states holds the working variables before the
\* first round and after each round made so far.
RECURSIVE sha1Rounds(_, _, _)
sha1Rounds(states, n, w) ==
    LET t == Len(states)
    IN  IF n < t THEN states
        ELSE IF n = t THEN Append(states, sha1Round(states[t], t, w))
        ELSE sha1Rounds(sha1Rounds(states, (t + n) \div 2, w), n, w)

\* The blocks of words, 16 words each: hs holds the initial hash value and
\* the hash value after each block made so far.  sha1Block is the hash
\* value after the block with the message schedule w, and s holds the
\* working variables after the last round.
sha1Sums(h, s) == Elements([i \in 1..5 |-> AddWords(<<h[i], s[i]>>)])

sha1Block(h, w) == sha1Sums(h, sha1Rounds(<<h>>, Len(w), w)[81])

RECURSIVE sha1Blocks(_, _)
sha1Blocks(hs, words) ==
    LET b == Len(hs)
    IN  IF 16 * b > Len(words) THEN hs[b]
        ELSE sha1Blocks(Append(hs, sha1Block(hs[b],
                           sha1Schedule(SubSeq(words, 16 * b - 15, 16 * b), 80))),
                        words)

sha1Sum(data) ==
    BytesOf(sha1Blocks(<<sha1Init>>, WordsOf(PaddedMessage(data, 64, 8), 2)), 2)

\* crypto/sha256 and crypto/sha512 (FIPS 180-4, 6.2 and 6.4): the same
\* computation on words of 2 and of 4 limbs.
Sigma(x, r) ==
    Parity(RotateRight(x, r[1]), RotateRight(x, r[2]), RotateRight(x, r[3]))
SmallSigma(x, r) ==
    Parity(RotateRight(x, r[1]), RotateRight(x, r[2]), ShiftRight(x, r[3]))

sha256 ==
    [size |-> 2, rounds |-> 64, K |-> sha256K, init |-> sha256Init,
     Sigma0 |-> <<2, 13, 22>>, Sigma1 |-> <<6, 11, 25>>,
     sigma0 |-> <<7, 18, 3>>, sigma1 |-> <<17, 19, 10>>]

sha512 ==
    [size |-> 4, rounds |-> 80, K |-> sha512K, init |-> sha512Init,
     Sigma0 |-> <<28, 34, 39>>, Sigma1 |-> <<14, 18, 41>>,
     sigma0 |-> <<1, 8, 7>>, sigma1 |-> <<19, 61, 6>>]

RECURSIVE sha2Schedule(_, _, _)
sha2Schedule(w, n, p) ==
    LET t == Len(w) + 1
    IN  IF n < t THEN w
        ELSE IF n = t
        THEN Append(w, AddWords(<<SmallSigma(w[t - 2], p.sigma1), w[t - 7],
                                  SmallSigma(w[t - 15], p.sigma0), w[t - 16]>>))
        ELSE sha2Schedule(sha2Schedule(w, (t + n) \div 2, p), n, p)

\* Round t on the working variables a to h.
sha2Step(s, t1, p) ==
    <<AddWords(<<t1, Sigma(s[1], p.Sigma0), Maj(s[1], s[2], s[3])>>),
      s[1], s[2], s[3], AddWords(<<s[4], t1>>), s[5], s[6], s[7]>>

sha2Round(s, t, w, p) ==
    sha2Step(s, AddWords(<<s[8], Sigma(s[5], p.Sigma1), Ch(s[5], s[6], s[7]),
                           p.K[t], w[t]>>), p)

RECURSIVE sha2Rounds(_, _, _, _)
sha2Rounds(states, n, w, p) ==
    LET t == Len(states)
    IN  IF n < t THEN states
        ELSE IF n = t THEN Append(states, sha2Round(states[t], t, w, p))
        ELSE sha2Rounds(sha2Rounds(states, (t + n) \div 2, w, p), n, w, p)

sha2Sums(h, s) == Elements([i \in 1..8 |-> AddWords(<<h[i], s[i]>>)])

sha2Block(h, w, p) == sha2Sums(h, sha2Rounds(<<h>>, Len(w), w, p)[p.rounds + 1])

RECURSIVE sha2Blocks(_, _, _)
sha2Blocks(hs, words, p) ==
    LET b == Len(hs)
    IN  IF 16 * b > Len(words) THEN hs[b]
        ELSE sha2Blocks(Append(hs, sha2Block(hs[b],
                           sha2Schedule(SubSeq(words, 16 * b - 15, 16 * b),
                                        p.rounds, p), p)),
                        words, p)

sha2Sum(data, p) ==
    BytesOf(sha2Blocks(<<p.init>>,
                       WordsOf(PaddedMessage(data, 32 * p.size, 4 * p.size),
                               p.size),
                       p),
            p.size)

\* hasher := h(); hasher.Write(data); hasher.Sum(nil)
Sum(data, algo) ==
    IF algo \in {"SHA256", "SHA512"}
    THEN sha2Sum(data, IF algo = "SHA256" THEN sha256 ELSE sha512)
    ELSE sha1Sum(data)

\* The key of HMAC as one block: a key longer than a block is hashed first,
\* a shorter one is padded with zeros.
BlockKey(key, short, blockSize) ==
    Elements([i \in 1..blockSize |-> IF i <= Len(short) THEN short[i] ELSE 0])

\* key[i] ^ pad for each byte of the key
XorPad(key, pad) == Elements([i \in DOMAIN key |-> BitXor(key[i], pad)])

\* HMAC with the two paddings exchanged.
HMACSwapped(key, message, algo) ==
    LET blockSize == IF algo = "SHA512" THEN 128 ELSE 64
        padded == BlockKey(key, IF Len(key) > blockSize THEN Sum(key, algo)
                                ELSE key, blockSize)
    IN  Sum(XorPad(padded, 54) \o Sum(XorPad(padded, 92) \o message, algo), algo)

\* HMAC(K, m) = H((K ^ opad) || H((K ^ ipad) || m)) with ipad 0x36 and opad
\* 0x5c; an algorithm that is neither SHA256 nor SHA512 selects SHA1.
HMAC(key, message, algo) ==
    LET blockSize == IF algo = "SHA512" THEN 128 ELSE 64
        padded == BlockKey(key, IF Len(key) > blockSize THEN Sum(key, algo)
                                ELSE key, blockSize)
    IN  Sum(XorPad(padded, 92) \o Sum(XorPad(padded, 54) \o message, algo), algo)

\* binary.BigEndian.PutUint64(counterBytes, counter)
PutUint64(counter) ==
    IF counter.wrap = 0 THEN BigEndian(counter.n, 8)
    ELSE Elements([i \in 1..8 |-> 255 - BigEndian(-counter.n - 1, 8)[i]])

\* binary.BigEndian.Uint32(hs[offset : offset+4]) & 0x7fffffff
Uint31(hs, offset) ==
    (hs[offset + 1] % 128) * 16777216 + hs[offset + 2] * 65536
    + hs[offset + 3] * 256 + hs[offset + 4]

\* offset := hs[len(hs)-1] & 0x0f
Truncated(hs) == Uint31(hs, hs[Len(hs)] % 16)

\* HMAC followed by the dynamic truncation: the 31 bits at the offset that
\* the low 4 bits of the last byte of the HMAC give.  For the secrets of the
\* vault model, which are not byte strings, the two are idealised: a fixed
\* function of the secret, the 8 counter bytes and the hash, into the 31-bit
\* integers.  HMAC selects the hash by name and falls back to SHA1.
DynamicTruncation(secret, counter, algo) ==
    IF secret \in Secrets
    THEN LET k == IF secret = <<"a">> THEN 0 ELSE 1
             h == CASE algo = "SHA256" -> 1
                    [] algo = "SHA512" -> 2
                    [] OTHER -> 0
         IN  (counter.n + 1000 * counter.wrap + 100) * 1000003
             + 611953 * k + 15485863 * h
    ELSE Truncated(HMAC(secret, PutUint64(counter), algo))

RECURSIVE Pow10(_)
Pow10(d) == IF d = 0 THEN 1 ELSE 10 * Pow10(d - 1)

\* fmt.Sprintf("%0<d>d", n): the d decimal digits of n < 10^d, zero-padded.
Sprintf0(d, n) == Elements([i \in 1..d |-> (n \div Pow10(d - i)) % 10])

\* GenerateHOTP accepting 5 to 9 digits.
GenerateHOTPWide(secret, counter, digits, algo) ==
    IF digits < 5 \/ digits > 9
    THEN Err("digits must be between 6 and 8")
    ELSE Ok(Sprintf0(digits,
                     DynamicTruncation(secret, counter, algo) % Pow10(digits)))

GenerateHOTP(secret, counter, digits, algo) ==
    IF digits < 6 \/ digits > 8
    THEN Err("digits must be between 6 and 8")
    ELSE Ok(Sprintf0(digits,
                     DynamicTruncation(secret, counter, algo) % Pow10(digits)))

TOTPParams(secret, timestamp, period, digits, algorithm) ==
    [secret |-> secret, timestamp |-> timestamp, period |-> period,
     digits |-> digits, algorithm |-> algorithm]

\* The period substituted for an unset one.
DefaultPeriod(period) == IF period <= 0 THEN 30 ELSE period

GenerateTOTP(params) ==
    LET period == DefaultPeriod(params.period)
        digits == IF params.digits = 0 THEN 6 ELSE params.digits
        algorithm == IF params.algorithm = "" THEN "SHA1" ELSE params.algorithm
        counter == Uint64(GoDiv(params.timestamp, period))
    IN  GenerateHOTP(params.secret, counter, digits, algorithm)

\* The loop of ValidateTOTP from step i on; p has its period defaulted.
\* The result is the pair (bool, error).
RECURSIVE ValidateFrom(_, _, _, _)
ValidateFrom(i, code, p, window) ==
    IF i > window THEN [valid |-> FALSE, err |-> "none"]
    ELSE LET t == p.timestamp + i * p.period
             generated == GenerateTOTP([p EXCEPT !.timestamp = t])
         IN  IF ~generated.ok THEN [valid |-> FALSE, err |-> generated.err]
             ELSE IF generated.val = code
                  THEN [valid |-> TRUE, err |-> "none"]
             ELSE ValidateFrom(i + 1, code, p, window)

\* ValidateTOTP accepting only the current and the later steps.
ValidateTOTPForward(code, params, window) ==
    ValidateFrom(0, code,
                 [params EXCEPT !.period = DefaultPeriod(@)], window)

ValidateTOTP(code, params, window) ==
    ValidateFrom(-window, code,
                 [params EXCEPT !.period = DefaultPeriod(@)], window)

RemainingSeconds(timestamp, period) ==
    LET p == DefaultPeriod(period)
    IN  p - (timestamp - p * GoDiv(timestamp, p))

\* The parameters of the calls: unset (0, "") and out-of-range values included.
Periods == {0, 7, 30}

AllParams ==
    {TOTPParams(<<"a">>, t, p, d, a) :
       t \in Timestamps, p \in Periods, d \in {0, 5, 6}, a \in {"", "SHA256"}}

\* The codes a user may present: the code of one of the steps -3..3, or a
\* code no generator returns.
CodesNear(params) ==
    LET near == {GenerateTOTP([params EXCEPT
                                 !.timestamp = @ + j * DefaultPeriod(params.period)]) :
                   j \in -3..3}
    IN  {<<0, 0, 0, 0, 0, 0, 0>>} \cup {g.val : g \in {n \in near : n.ok}}

GenerateHOTPCall(secret, counter, digits, algo) ==
    /\ call' = [fn |-> "GenerateHOTP",
                args |-> [secret |-> secret, counter |-> counter,
                          digits |-> digits, algo |-> algo],
                ret |-> GenerateHOTP(secret, counter, digits, algo)]
    /\ UNCHANGED files

GenerateTOTPCall(params) ==
    /\ call' = [fn |-> "GenerateTOTP", args |-> [params |-> params],
                ret |-> GenerateTOTP(params)]
    /\ UNCHANGED files

ValidateTOTPCall(code, params, window) ==
    /\ call' = [fn |-> "ValidateTOTP",
                args |-> [code |-> code, params |-> params, window |-> window],
                ret |-> ValidateTOTP(code, params, window)]
    /\ UNCHANGED files

RemainingSecondsCall(timestamp, period) ==
    /\ call' = [fn |-> "RemainingSeconds",
                args |-> [timestamp |-> timestamp, period |-> period],
                ret |-> RemainingSeconds(timestamp, period)]
    /\ UNCHANGED files

\* Each behaviour is one call of one function.
NextTotp ==
    \/ /\ call = NoCall
       /\ \E params \in AllParams : GenerateTOTPCall(params)
    \/ /\ call = NoCall
       /\ \E params \in AllParams, window \in -1..2 :
             \E code \in CodesNear(params) :
                ValidateTOTPCall(code, params, window)
    \/ /\ call = NoCall
       /\ \E t \in Timestamps, p \in Periods \cup {-1} :
             RemainingSecondsCall(t, p)
    \/ /\ call = NoCall
       /\ \E secret \in Secrets, q \in -2..9, digits \in -1..10,
             algo \in {"SHA1", "SHA256", "SHA512", "MD5"} :
             GenerateHOTPCall(secret, Uint64(q), digits, algo)

SpecTotp == InitCall /\ [][NextTotp]_vars

\* GenerateTOTP returns code for the parameters moved by i periods.
GeneratedAt(params, i, code) ==
    LET g == GenerateTOTP([params EXCEPT
                             !.timestamp = @ + i * DefaultPeriod(params.period)])
    IN  g.ok /\ g.val = code

\* C18: ValidateTOTP(code, params, w) returns true exactly when code is the
\* code generated for timestamp + i * period for some i in -w..w.
C18_ValidateWindow ==
    call.fn = "ValidateTOTP"
      => (call.ret.valid <=>
            \E i \in (-call.args.window)..call.args.window :
               GeneratedAt(call.args.params, i, call.args.code))

\* A code of the previous step only, accepted with window 1.
C18_Witness ==
    /\ call.fn = "ValidateTOTP"
    /\ call.args.window = 1
    /\ call.ret.valid
    /\ GeneratedAt(call.args.params, -1, call.args.code)
    /\ ~GeneratedAt(call.args.params, 0, call.args.code)
    /\ ~GeneratedAt(call.args.params, 1, call.args.code)

\* C19: GenerateTOTP returns GenerateHOTP of the counter
\* floor(unix_seconds / period), with period 30, 6 digits and SHA1
\* substituted for unset parameters.
C19_CounterIsFloor ==
    call.fn = "GenerateTOTP"
      => LET p == call.args.params
             period == IF p.period <= 0 THEN 30 ELSE p.period
             digits == IF p.digits = 0 THEN 6 ELSE p.digits
             algorithm == IF p.algorithm = "" THEN "SHA1" ELSE p.algorithm
         IN  call.ret = GenerateHOTP(p.secret,
                                     Uint64(p.timestamp \div period),
                                     digits, algorithm)

\* C20: for a positive period RemainingSeconds is
\* period - (unix_seconds mod period), a value in 1..period.
C20_RemainingInPeriod ==
    (call.fn = "RemainingSeconds" /\ call.args.period > 0)
      => /\ call.ret = call.args.period
                         - (call.args.timestamp % call.args.period)
         /\ call.ret \in 1..call.args.period

\* The number a string of decimal characters denotes.
RECURSIVE DecimalValue(_)
DecimalValue(code) ==
    IF code = <<>> THEN 0
    ELSE 10 * DecimalValue(SubSeq(code, 1, Len(code) - 1)) + code[Len(code)]

\* C21: GenerateHOTP returns an error and no code for digits outside 6..8;
\* for 6, 7 and 8 digits it returns exactly that many decimal characters,
\* which denote the truncated value modulo 10^digits.
C21_HOTPDigits ==
    call.fn = "GenerateHOTP"
      => LET a == call.args
         IN  IF a.digits \in 6..8
             THEN /\ call.ret.ok
                  /\ Len(call.ret.val) = a.digits
                  /\ \A i \in 1..a.digits : call.ret.val[i] \in 0..9
                  /\ DecimalValue(call.ret.val)
                       = DynamicTruncation(a.secret, a.counter, a.algo)
                           % Pow10(a.digits)
             ELSE ~call.ret.ok /\ call.ret.val = Nil

\* A code of 8 characters that starts with a zero, and so was padded.
C21_Witness ==
    /\ call.fn = "GenerateHOTP"
    /\ call.args.digits = 8
    /\ call.ret.ok
    /\ call.ret.val[1] = 0
    /\ DecimalValue(call.ret.val) > 0

-----------------------------------------------------------------------------
(* The reference values of RFC 6238 *)

\* []byte("1234567890..."), n characters long.
Seed(n) == Elements([i \in 1..n |-> 48 + (i % 10)])

\* TestTOTP_RFC6238: the seed used with each algorithm and the published
\* codes.
RFCSeed(algo) ==
    Seed(CASE algo = "SHA1" -> 20
           [] algo = "SHA256" -> 32
           [] algo = "SHA512" -> 64)

RFCVectors ==
    {[time |-> 59, SHA1 |-> <<9, 4, 2, 8, 7, 0, 8, 2>>,
      SHA256 |-> <<4, 6, 1, 1, 9, 2, 4, 6>>,
      SHA512 |-> <<9, 0, 6, 9, 3, 9, 3, 6>>],
     [time |-> 1111111109, SHA1 |-> <<0, 7, 0, 8, 1, 8, 0, 4>>,
      SHA256 |-> <<6, 8, 0, 8, 4, 7, 7, 4>>,
      SHA512 |-> <<2, 5, 0, 9, 1, 2, 0, 1>>],
     [time |-> 1111111111, SHA1 |-> <<1, 4, 0, 5, 0, 4, 7, 1>>,
      SHA256 |-> <<6, 7, 0, 6, 2, 6, 7, 4>>,
      SHA512 |-> <<9, 9, 9, 4, 3, 3, 2, 6>>],
     [time |-> 1234567890, SHA1 |-> <<8, 9, 0, 0, 5, 9, 2, 4>>,
      SHA256 |-> <<9, 1, 8, 1, 9, 4, 2, 4>>,
      SHA512 |-> <<9, 3, 4, 4, 1, 1, 1, 6>>],
     [time |-> 2000000000, SHA1 |-> <<6, 9, 2, 7, 9, 0, 3, 7>>,
      SHA256 |-> <<9, 0, 6, 9, 8, 8, 2, 5>>,
      SHA512 |-> <<3, 8, 6, 1, 8, 9, 0, 1>>]}

Algorithms == {"SHA1", "SHA256", "SHA512"}

\* The parameters of a test case.
RFCParams(v, algo) == TOTPParams(RFCSeed(algo), v.time, 30, 8, algo)

\* Each behaviour is one call of GenerateTOTP: a test case, or a call with
\* SHA1 and another seed, another number of digits, or the period unset.
NextRfc ==
    \/ /\ call = NoCall
       /\ \E v \in RFCVectors, algo \in Algorithms :
             GenerateTOTPCall(RFCParams(v, algo))
    \/ /\ call = NoCall
       /\ \E n \in {20, 32, 64}, t \in {v.time : v \in RFCVectors} \cup {0},
             d \in 6..8, period \in {0, 30} :
             GenerateTOTPCall(TOTPParams(Seed(n), t, period, d, "SHA1"))

SpecRfc == InitCall /\ [][NextRfc]_vars

\* C24: for each of the five reference timestamps of RFC 6238 and each of
\* SHA1, SHA256 and SHA512 with the seed of that algorithm, GenerateTOTP
\* with period 30 and 8 digits returns the published code.
C24_RFC6238Vectors ==
    \A v \in RFCVectors, algo \in Algorithms :
       (call.fn = "GenerateTOTP" /\ call.args.params = RFCParams(v, algo))
         => call.ret = Ok(v[algo])

\* The code of SHA1 at 1111111109, which starts with a zero.
C24_Witness ==
    /\ call.fn = "GenerateTOTP"
    /\ call.args.params = TOTPParams(Seed(20), 1111111109, 30, 8, "SHA1")
    /\ call.ret.ok
    /\ call.ret.val = <<0, 7, 0, 8, 1, 8, 0, 4>>

-----------------------------------------------------------------------------
(* Base32: the base32 package *)

\* Bytes are numbers in 0..255 and strings are sequences of code points.
\* A uint64 is the sequence of its 64 bits, the most significant first.
WordBits == 64
MaxBytes == 9

RECURSIVE BitsOf(_, _)
\* The k low bits of the number v, the most significant first.
BitsOf(v, k) == IF k = 0 THEN <<>> ELSE Append(BitsOf(v \div 2, k - 1), v % 2)

RECURSIVE ValueOf(_)
\* The number a sequence of bits denotes.
ValueOf(bits) ==
    IF bits = <<>> THEN 0
    ELSE 2 * ValueOf(SubSeq(bits, 1, Len(bits) - 1)) + bits[Len(bits)]

ZeroWord == BitsOf(0, WordBits)

\* (buffer << k) | v for a v below 2^k: the bits shifted out are lost.
ShiftIn(buffer, k, v) == SubSeq(buffer, k + 1, WordBits) \o BitsOf(v, k)

\* The k low bits of buffer >> n.
ShiftOut(buffer, n, k) ==
    ValueOf(SubSeq(buffer, WordBits - n - k + 1, WordBits - n))

\* An alphabet whose digits start at 0.
AlphabetFromZero(index) == IF index < 26 THEN 65 + index ELSE 48 + (index - 26)

\* alphabet[index]
AlphabetAt(index) == IF index < 26 THEN 65 + index ELSE 50 + (index - 26)

Pad == 61

RECURSIVE Chunks(_, _)
\* The inner loop of Encode: the 5-bit chunks taken while bitsLeft >= 5.
Chunks(buffer, bitsLeft) ==
    IF bitsLeft >= 5
    THEN <<AlphabetAt(ShiftOut(buffer, bitsLeft - 5, 5))>>
           \o Chunks(buffer, bitsLeft - 5)
    ELSE <<>>

RECURSIVE EncodeFrom(_, _, _, _)
\* The loop of Encode over data from byte i on, and the remaining bits.
EncodeFrom(data, i, buffer, bitsLeft) ==
    IF i > Len(data)
    THEN IF bitsLeft > 0
         THEN <<AlphabetAt(ValueOf(SubSeq(buffer, WordBits - bitsLeft + 1, WordBits)
                                     \o BitsOf(0, 5 - bitsLeft)))>>
         ELSE <<>>
    ELSE LET b == ShiftIn(buffer, 8, data[i])
             n == bitsLeft + 8
         IN  Chunks(b, n) \o EncodeFrom(data, i + 1, b, n % 5)

RECURSIVE Padded(_)
Padded(text) == IF Len(text) % 8 # 0 THEN Padded(Append(text, Pad)) ELSE text

Encode32(data) ==
    IF Len(data) = 0 THEN <<>> ELSE Padded(EncodeFrom(data, 1, ZeroWord, 0))

RECURSIVE TrimRight(_)
\* strings.TrimRight(s, "=")
TrimRight(text) ==
    IF text # <<>> /\ text[Len(text)] = Pad
    THEN TrimRight(SubSeq(text, 1, Len(text) - 1))
    ELSE text

\* unicode.ToUpper on the code points of the model: the ASCII letters, and
\* the two letters outside ASCII whose upper case is an ASCII letter.
ToUpperRune(c) ==
    IF c \in 97..122 THEN c - 32
    ELSE IF c = 383 THEN 83
    ELSE IF c = 305 THEN 73
    ELSE c

ToUpper(text) == [i \in 1..Len(text) |-> ToUpperRune(text[i])]

\* The normalisation Decode starts with.
DecodeNormalized(text) == ToUpper(TrimRight(text))

RECURSIVE DecodeFrom(_, _, _, _)
\* The loop of Decode over s from character i on.
DecodeFrom(text, i, buffer, bitsLeft) ==
    IF i > Len(text) THEN Ok(<<>>)
    ELSE LET char == text[i] IN
         IF ~(char \in 65..90 \/ char \in 50..55)
         THEN Err("invalid base32 character")
         ELSE LET val == IF char \in 65..90 THEN char - 65 ELSE char - 50 + 26
                  b == ShiftIn(buffer, 5, val)
                  n == bitsLeft + 5
                  rest == DecodeFrom(text, i + 1, b, IF n >= 8 THEN n - 8 ELSE n)
              IN  IF ~rest.ok THEN rest
                  ELSE IF n >= 8
                       THEN Ok(<<ShiftOut(b, n - 8, 8)>> \o rest.val)
                       ELSE rest

Decode32(text) ==
    LET t == DecodeNormalized(text)
    IN  IF t = <<>> THEN Ok(<<>>) ELSE DecodeFrom(t, 1, ZeroWord, 0)

\* The sequences of at most n elements of S.
SeqsUpTo(S, n) == UNION {[1..k -> S] : k \in 0..n}

\* The byte sequences encoded: short ones over several byte values, and ones
\* longer than a uint64 over two.
ByteSeqs == SeqsUpTo({0, 1, 102, 128, 255}, 3) \cup SeqsUpTo({0, 255}, MaxBytes)

\* The strings decoded: A Z 2 7, a z, 1 8 0 9, =, space, and the letters
\* U+017F and U+0131.
Texts == SeqsUpTo({65, 90, 50, 55, 97, 122, 49, 56, 48, 57, Pad, 32, 383, 305}, 2)
           \cup {<<65, Pad, 65, Pad>>, <<77, 89, Pad, Pad, Pad, Pad, Pad, Pad>>,
                 <<109, 122, 120, 119, 54, Pad, Pad, Pad>>}

EncodeCall(data) ==
    /\ call' = [fn |-> "Encode", args |-> [data |-> data], ret |-> Encode32(data)]
    /\ UNCHANGED files

\* Decode of an arbitrary string.
DecodeCall(text) ==
    /\ call' = [fn |-> "Decode", args |-> [s |-> text, encoded |-> Unset],
                ret |-> Decode32(text)]
    /\ UNCHANGED files

\* Decode of what Encode returned for data.
DecodeEncodedCall(data) ==
    /\ call' = [fn |-> "Decode",
                args |-> [s |-> Encode32(data), encoded |-> Given(data)],
                ret |-> Decode32(Encode32(data))]
    /\ UNCHANGED files

NextBase32 ==
    \/ /\ call = NoCall
       /\ \E data \in ByteSeqs : EncodeCall(data)
    \/ /\ call = NoCall
       /\ \E text \in Texts : DecodeCall(text)
    \/ /\ call = NoCall
       /\ \E data \in ByteSeqs : DecodeEncodedCall(data)

SpecBase32 == InitCall /\ [][NextBase32]_vars

\* C22: Decode of Encode(s) succeeds and returns s, and Encode of the empty
\* sequence is the empty string.
C22_RoundTrip ==
    /\ (call.fn = "Decode" /\ call.args.encoded # Unset)
         => call.ret = Ok(call.args.encoded.n)
    /\ (call.fn = "Encode" /\ call.args.data = <<>>) => call.ret = <<>>

\* A round trip of more bytes than a uint64 holds, with padding.
C22_Witness ==
    /\ call.fn = "Decode"
    /\ call.args.encoded # Unset
    /\ Len(call.args.encoded.n) = 9
    /\ call.args.s[Len(call.args.s)] = Pad
    /\ call.ret.ok
    /\ call.ret.val = call.args.encoded.n
    /\ 255 \in {call.ret.val[i] : i \in 1..9}

\* C23: Decode returns an error and no bytes for every string with a
\* character outside A-Z and 2-7 that is not part of the trailing '='
\* padding.
C23_RejectsOutsideAlphabet ==
    (/\ call.fn = "Decode"
     /\ \E i \in 1..Len(call.args.s) :
          /\ ~(call.args.s[i] \in 65..90 \/ call.args.s[i] \in 50..55)
          /\ ~(\A j \in i..Len(call.args.s) : call.args.s[j] = Pad))
      => /\ ~call.ret.ok
         /\ call.ret.val = Nil

-----------------------------------------------------------------------------
(* The clipboard: gotp get --copy *)

\* The variables the clipboard actions do not touch, the clock apart.
disk == <<fs, stale, pc, sv, origin, res, sessionFile, machine, lvi, hist,
          backups, cmd, log, call>>

\* The codes get generates, and the values of --timeout, in seconds.
Codes == {"111111", "222222"}
Timeouts == {-1, 0, 1, 2}

\* clipboard.WriteWithTimeout(text, timeout) in the process: the clipboard
\* and the sleeping goroutines after it returned. A failed WriteAll returns
\* the error and starts nothing.
WriteWithTimeout(c, text, timeout, at, writeFails) ==
    IF writeFails THEN c
    ELSE [c EXCEPT !.content = text,
                   !.timers = IF timeout > 0
                              THEN @ \cup {[text |-> text, wake |-> at + timeout]}
                              ELSE @,
                   !.copied = IF timeout > 0
                              THEN [text |-> text, at |-> at, timeout |-> timeout]
                              ELSE Nil]

\* gotp get <name> --copy --timeout <timeout>: a new process prints the code,
\* calls WriteWithTimeout and returns from RunE.
GetCopy(code, timeout, writeFails) ==
    /\ clip.proc = "none"
    /\ clip' = [WriteWithTimeout(clip, code, timeout, now, writeFails)
                  EXCEPT !.proc = "returned"]
    /\ UNCHANGED <<disk, now>>

\* The goroutine of WriteWithTimeout wakes after its sleep: it reads the
\* clipboard and clears it if it still holds the text.
Wake(t, readFails) ==
    /\ clip.proc = "returned"
    /\ t \in clip.timers
    /\ now >= t.wake
    /\ clip' = [clip EXCEPT !.timers = @ \ {t},
                            !.content = IF ~readFails /\ @ = t.text THEN "" ELSE @]
    /\ UNCHANGED <<disk, now>>

\* main returns after Execute and the process ends with its goroutines.
Exit ==
    /\ clip.proc = "returned"
    /\ clip' = [clip EXCEPT !.proc = "none", !.timers = {}]
    /\ UNCHANGED <<disk, now>>

\* Another program replaces the content of the clipboard.
OtherCopy ==
    /\ clip.content # "other"
    /\ clip' = [clip EXCEPT !.content = "other"]
    /\ UNCHANGED <<disk, now>>

NextClip ==
    \/ \E code \in Codes, timeout \in Timeouts, writeFails \in BOOLEAN :
          GetCopy(code, timeout, writeFails)
    \/ \E t \in clip.timers, readFails \in BOOLEAN : Wake(t, readFails)
    \/ Exit
    \/ OtherCopy
    \/ Tick

SpecClip == InitCall /\ [][NextClip]_vars

\* C25: once the timeout of the last copy has elapsed, a clipboard that still
\* holds the copied code is about to be cleared: the goroutine that clears
\* it is still there.
C25_ClipboardCleared ==
    (/\ clip.copied # Nil
     /\ now >= clip.copied.at + clip.copied.timeout
     /\ clip.content = clip.copied.text)
      => \E t \in clip.timers : t.text = clip.copied.text

====
